---- MODULE Spec2Model ----
(***************************************************************************)
(* JiKong PB2A16S30P BMS add-on: frame extraction from the RS485/TCP byte  *)
(* stream (app/transport.py, the nested transport.py and main.py), the    *)
(* 0x02 -> 0x01 binding loop of the nested app/main.py, and the            *)
(* correlation engine with command frames (of which the source holds the   *)
(* frame declaration BMS_MAP[0x10] only), the register decoder             *)
(* (app/decoder.py over app/bms_registers.py), the MQTT publisher          *)
(* (app/publisher.py) and the asyncio entry point (app/main.py). The       *)
(* connection loop of TcpTransport.packets and the discovery loop of the   *)
(* publisher are also modelled step by step.                               *)
(*                                                                         *)
(* Bytes are integers 0..255, byte strings are sequences of bytes.         *)
(* Python indices are 0-based, TLA+ sequences are 1-based: buffer[i] of    *)
(* the code is buffer[i+1] here.                                           *)
(* Time is counted in ticks of 0.4 s, in the asyncio entry point in ticks  *)
(* of 0.2 s.                                                               *)
(***************************************************************************)
EXTENDS Integers, Sequences, FiniteSets, TLC

\* ---------------------------------------------------------------- bounds
\* chunks received per run of the extractor
MaxChunks == 3
\* chunks received per run of the main loop
MaxMainChunks == 2
\* connections opened per run
MaxConns == 2
\* the clock ticks up to MaxTime; a recv timeout may still follow
MaxTime == 2
\* frames processed per run of the correlation engine
MaxFrames == 4
\* calls of the publisher per run
MaxPubCalls == 3
\* the publisher's clock ticks up to EPOCH + MaxPubTime
MaxPubTime == 3
\* the argument retries of _safe_publish goes up to MaxRetries (default 3)
MaxRetries == 3
\* the asyncio entry point receives up to MaxAppEvents chunks
MaxAppEvents == 3
\* the clock of the asyncio entry point ticks up to MaxAppTime
MaxAppTime == 3
\* connects of TcpTransport.packets that raise after the socket was created
MaxTcpFails == 1
\* recv timeouts of TcpTransport.packets
MaxTimeouts == 1

\* ------------------------------------------------------------- constants
HEADER == <<85, 170, 235, 144>>
PACKET_LEN_01 == 300
PACKET_LEN_02 == 308
\* buffer[-100:]
TAIL_KEEP == 100
\* len(buffer) < header_index + 6
MIN_HDR == 6
\* tcp.buffer_size of the configuration (default 4096); the model runs with
\* a cap of 294 so that the input chunks reach it exactly (294 bytes) and
\* exceed it (302 bytes)
buffer_size == 294

\* EXPIRY of the correlation engine, in ticks
EXPIRY == 1
\* the slave ids the supervisor addresses its commands to (BMS_MAP[0x10],
\* offset 0: target slave id); id 0 is the supervisor itself
CmdTargets == {3, 5}
\* the ids an Identity frame reports
SelfIds == {0, 3, 5, 7}

VARIABLES
  pc,        \* extractor position: "connect" | "recv" | "parse"
  buffer,    \* bytearray buffer of TcpTransport.packets
  stream,    \* every byte received on the current connection (history)
  consumed,  \* number of bytes of stream already removed from buffer's front (history)
  yielded,   \* frames yielded on the current connection (history)
  nchunks,   \* chunks received so far
  conns,     \* connections opened so far
  leftover,  \* the buffer as it was when the last connection ended (history)
  \* --- the loop of the nested app/main.py
  m_pc,                    \* position: "connect" | "recv" | "parse"
  m_buffer,                \* buffer
  pending_realtime_packet, \* None or the stored 0x02 packet
  last_realtime_time,      \* time.time() when it was stored
  now,                     \* the clock, in ticks
  sink,                    \* calls of publisher.process_and_publish (history)
  handled,                 \* complete frames taken out of the buffer, each with the
                           \* number of bytes received until then (history)
  m_chunks,                \* chunks received so far
  m_conns,                 \* connections opened so far
  m_stream,                \* every byte received on the current connection (history)
  notices                  \* drop notices printed so far, by kind (history)

\* --- the correlation engine with command frames
VARIABLES
  PendingTelemetry,   \* the single telemetry slot: [n, at], n = 0 when empty
  PendingCommand,     \* target id -> [n, at], n = 0 when none is pending
  last_commanded_id,  \* target of the latest Command frame, -1 when unset
  last_command_time,  \* arrival time of the latest Command frame
  clock,              \* the clock of the engine, in ticks
  frames,             \* frames processed so far: [kind, id, at] (history)
  emitted,            \* AttributedFrames emitted so far (history)
  stale_dropped,      \* count of telemetry dropped unattributed
  purged              \* numbers of the commands purged unreleased (history)

extVars == <<pc, buffer, stream, consumed, yielded, nchunks, conns, leftover>>
mainVars == <<m_pc, m_buffer, pending_realtime_packet, last_realtime_time, now,
              sink, handled, m_chunks, m_conns, m_stream, notices>>
engVars == <<PendingTelemetry, PendingCommand, last_commanded_id, last_command_time,
             clock, frames, emitted, stale_dropped, purged>>
\* --- decoder.py: one call of decode_packet / extract_device_address
VARIABLES
  d_map,      \* the register map in use: a key of Maps
  d_packet,   \* packet
  d_type,     \* packet_type
  d_raw,      \* offset -> raw integer the packet was written from (history)
  d_result,   \* what decode_packet did: [raised, payload]
  d_addr,     \* what extract_device_address returned
  d_done      \* the calls already made on the packet

\* --- app/publisher.py: MqttPublisher
VARIABLES
  settings_last_publish,  \* device_id -> time of the last settings publish
  published_discovery,    \* _published_discovery: set of <<device_id, packet_type>>
  p_now,                  \* time.time(), in ticks
  published,              \* messages handed to _safe_publish, per call (history)
  p_calls                 \* calls made so far

\* --- app/publisher.py: one run of _safe_publish
VARIABLES
  sp_pc,       \* "idle" | "loop" | "done"
  retries,     \* the argument retries
  attempt,     \* attempts made so far
  connected,   \* self._connected
  sp_log,      \* the attempts: [waited, outcome] (history)
  sp_return    \* the value returned: "none" | "True" | "False" | "raised"

\* --- app/main.py: the asyncio entry point
VARIABLES
  last_realtime_packet,  \* BmsPacketProcessor.last_realtime_packet: None or [ts, data]
  a_now,                 \* time.time(), in ticks
  mqtt_out,              \* MqttClient.publish calls (history)
  s_buffer,              \* SerialTransport.buffer
  coroutines,            \* coroutine objects created and not awaited (history)
  raw_log,               \* executions of process_raw: [src, data, at, out], out the
                         \* number of publish calls made until its end (history)
  delivered              \* chunks delivered to data_received (history)

\* --- app/transport.py: the connection loop of TcpTransport.packets
VARIABLES
  t_sock,      \* the variable sock as the finally clause finds it: "None" | "open"
  t_closed,    \* sockets closed so far (history)
  t_failed,    \* sockets whose connect raised so far (history)
  t_timeouts   \* recv timeouts so far (history)

\* --- app/publisher.py: publish_discovery_for_packet_type, step by step
VARIABLES
  p_pc,   \* "idle" | "sending": inside the loop that sends the discovery messages
  p_key   \* the key (device_id, packet_type) of the call that is sending

decVars == <<d_map, d_packet, d_type, d_raw, d_result, d_addr, d_done>>
pubVars == <<settings_last_publish, published_discovery, p_now, published, p_calls>>
spVars == <<sp_pc, retries, attempt, connected, sp_log, sp_return>>
appVars == <<last_realtime_packet, a_now, mqtt_out, s_buffer, coroutines, raw_log,
             delivered>>
tcpVars == <<t_sock, t_closed, t_failed, t_timeouts>>
discVars == <<p_pc, p_key>>
coreVars == <<extVars, mainVars, engVars, tcpVars, discVars>>
svcVars == <<decVars, pubVars, spVars, appVars, tcpVars, discVars>>
vars == <<extVars, mainVars, engVars, svcVars>>

\* None (pending_realtime_packet = None); a stored packet is never empty
None == <<>>

\* an empty dict
NoFields == [x \in {} |-> 0]

\* time.time() when the program starts, in ticks: far above every interval
EPOCH == 1000

\* ------------------------------------------------------------ byte helpers
Pad(n) == [i \in 1..n |-> 0]

Min(S) == CHOOSE x \in S : \A y \in S : x <= y

Max(S) == CHOOSE x \in S : \A y \in S : x >= y

\* buffer.rfind(HEADER) in the place of buffer.find(HEADER)
Find_Last(buf) ==
  LET idx == {i \in 0..(Len(buf) - 4) : SubSeq(buf, i + 1, i + 4) = HEADER}
  IN  IF idx = {} THEN -1 ELSE Max(idx)

\* buffer.find(HEADER): 0-based index of the first occurrence, -1 if none
Find(buf) ==
  LET idx == {i \in 0..(Len(buf) - 4) :
                /\ buf[i + 1] = HEADER[1] /\ buf[i + 2] = HEADER[2]
                /\ buf[i + 3] = HEADER[3] /\ buf[i + 4] = HEADER[4]}
  IN  IF idx = {} THEN -1 ELSE Min(idx)

\* buffer[:n] in the place of buffer[-n:]
LastN_First(buf, n) ==
  IF Len(buf) <= n THEN buf ELSE SubSeq(buf, 1, n)

\* buffer[-1:] in the place of buffer[-n:]
LastN_Short(buf, n) ==
  IF Len(buf) <= 1 THEN buf ELSE SubSeq(buf, Len(buf), Len(buf))

\* buffer[-n:]
LastN(buf, n) ==
  IF Len(buf) <= n THEN buf ELSE SubSeq(buf, Len(buf) - n + 1, Len(buf))

\* one length for every packet type
PacketLen_Same(pkt_type) == PACKET_LEN_01

\* a frame is complete as soon as its marker and two more bytes are there
PacketLen_Header(pkt_type) == MIN_HDR

\* packet_len = PACKET_LEN_02 if pkt_type == 0x02 else PACKET_LEN_01
PacketLen(pkt_type) == IF pkt_type = 2 THEN PACKET_LEN_02 ELSE PACKET_LEN_01

\* ------------------------------------------------------------ input chunks
\* a complete frame of type t with an all-zero payload (300 / 308 bytes)
Frame(t) == HEADER \o <<t, 0>> \o Pad(IF t = 2 THEN 302 ELSE 294)
\* a 0x01 frame whose payload carries the marker of a 0x02 frame
FrameNested == HEADER \o <<1, 0>> \o Pad(10) \o HEADER \o <<2, 0>> \o Pad(278)
\* a write command of the master to slave 5 (function code 0x10)
Cmd5 == <<5, 16, 16, 30, 0, 1, 2, 0, 1, 12, 34>>
\* 302 bytes without a marker that end in the first half of a marker
JunkHalf == Pad(300) \o <<85, 170>>

Chunks ==
  { <<85, 170>>, <<235, 144, 1, 0>>, HEADER \o <<2, 0>>, Pad(294), JunkHalf,
    Cmd5 \o Frame(1) \o Frame(2), FrameNested, Frame(3) \o HEADER }

\* -------------------------------------------------------------- extractor
TypeOK ==
  /\ pc \in {"connect", "recv", "parse"}
  /\ nchunks \in 0..MaxChunks
  /\ conns \in 0..MaxConns
  /\ consumed \in 0..Len(stream)

Init ==
  /\ pc = "connect"
  /\ buffer = <<>>
  /\ stream = <<>>
  /\ consumed = 0
  /\ yielded = <<>>
  /\ nchunks = 0
  /\ conns = 0
  /\ leftover = <<>>
  /\ m_pc = "connect"
  /\ m_buffer = <<>>
  /\ pending_realtime_packet = None
  /\ last_realtime_time = 0
  /\ now = 0
  /\ sink = <<>>
  /\ handled = <<>>
  /\ m_chunks = 0
  /\ m_conns = 0
  /\ m_stream = <<>>
  /\ notices = [overwritten |-> 0, expired |-> 0, idle |-> 0]
  /\ PendingTelemetry = [n |-> 0, at |-> 0]
  /\ PendingCommand = [x \in CmdTargets |-> [n |-> 0, at |-> 0]]
  /\ last_commanded_id = -1
  /\ last_command_time = 0
  /\ clock = 0
  /\ frames = <<>>
  /\ emitted = <<>>
  /\ stale_dropped = 0
  /\ purged = {}
  /\ d_map = "BMS_MAP"
  /\ d_packet = <<>>
  /\ d_type = 0
  /\ d_raw = NoFields
  /\ d_result = [raised |-> FALSE, payload |-> NoFields]
  /\ d_addr = 0
  /\ d_done = {"decode", "extract"}
  /\ settings_last_publish = NoFields
  /\ published_discovery = {}
  /\ p_now = EPOCH
  /\ published = <<>>
  /\ p_calls = 0
  /\ sp_pc = "idle"
  /\ retries = 0
  /\ attempt = 0
  /\ connected = FALSE
  /\ sp_log = <<>>
  /\ sp_return = "none"
  /\ last_realtime_packet = None
  /\ a_now = 0
  /\ mqtt_out = <<>>
  /\ s_buffer = <<>>
  /\ coroutines = <<>>
  /\ raw_log = <<>>
  /\ delivered = <<>>
  /\ t_sock = "None"
  /\ t_closed = 0
  /\ t_failed = 0
  /\ t_timeouts = 0
  /\ p_pc = "idle"
  /\ p_key = <<>>

\* the buffer is created once, outside the connection loop
Connect_KeepsBuffer ==
  /\ pc = "connect"
  /\ conns < MaxConns
  /\ conns' = conns + 1
  /\ stream' = <<>>
  /\ consumed' = 0
  /\ yielded' = <<>>
  /\ pc' = "recv"
  /\ UNCHANGED <<buffer, nchunks, leftover, mainVars, engVars, svcVars>>

\* sock.connect(...); buffer = bytearray()
Connect ==
  /\ pc = "connect"
  /\ conns < MaxConns
  /\ conns' = conns + 1
  /\ buffer' = <<>>
  /\ stream' = <<>>
  /\ consumed' = 0
  /\ yielded' = <<>>
  /\ pc' = "recv"
  /\ UNCHANGED <<nchunks, leftover, mainVars, engVars, svcVars>>

\* chunk = sock.recv(1024); buffer.extend(chunk)
Recv(chunk) ==
  /\ pc = "recv"
  /\ nchunks < MaxChunks
  /\ nchunks' = nchunks + 1
  /\ buffer' = buffer \o chunk
  /\ stream' = stream \o chunk
  /\ pc' = "parse"
  /\ UNCHANGED <<consumed, yielded, conns, leftover, mainVars, engVars, svcVars>>

\* empty recv / ConnectionResetError / read error: break, close, reconnect
ConnLost ==
  /\ pc = "recv"
  /\ conns < MaxConns
  /\ pc' = "connect"
  /\ leftover' = buffer
  /\ UNCHANGED <<buffer, stream, consumed, yielded, nchunks, conns, mainVars, engVars, svcVars>>

\* len(buffer) >= buffer_size in the place of len(buffer) > buffer_size
ParseNoHeader_AtCap ==
  /\ pc = "parse"
  /\ Find(buffer) = -1
  /\ buffer' = IF Len(buffer) >= buffer_size THEN LastN(buffer, TAIL_KEEP) ELSE buffer
  /\ consumed' = consumed + (Len(buffer) - Len(buffer'))
  /\ pc' = "recv"
  /\ UNCHANGED <<stream, yielded, nchunks, conns, leftover, mainVars, engVars, svcVars>>

\* the buffer is never truncated
ParseNoHeader_NoCap ==
  /\ pc = "parse"
  /\ Find(buffer) = -1
  /\ pc' = "recv"
  /\ UNCHANGED <<buffer, stream, consumed, yielded, nchunks, conns, leftover, mainVars,
                 engVars, svcVars>>

\* header_index == -1: truncate above the cap, break
ParseNoHeader ==
  /\ pc = "parse"
  /\ Find(buffer) = -1
  /\ buffer' = IF Len(buffer) > buffer_size THEN LastN(buffer, TAIL_KEEP) ELSE buffer
  /\ consumed' = consumed + (Len(buffer) - Len(buffer'))
  /\ pc' = "recv"
  /\ UNCHANGED <<stream, yielded, nchunks, conns, leftover, mainVars, engVars, svcVars>>

\* len(buffer) < header_index + 6: break
ParseShort ==
  /\ pc = "parse"
  /\ Find(buffer) # -1
  /\ Len(buffer) < Find(buffer) + MIN_HDR
  /\ pc' = "recv"
  /\ UNCHANGED <<buffer, stream, consumed, yielded, nchunks, conns, leftover, mainVars,
                 engVars, svcVars>>

\* the cap is applied to a buffer that holds a partial frame as well
ParseIncomplete_Capped ==
  /\ pc = "parse"
  /\ Find(buffer) # -1
  /\ Len(buffer) >= Find(buffer) + MIN_HDR
  /\ LET header_index == Find(buffer)
         pkt_type == buffer[header_index + 4 + 1]
     IN  Len(buffer) < header_index + PacketLen(pkt_type)
  /\ buffer' = IF Len(buffer) > buffer_size THEN LastN(buffer, TAIL_KEEP) ELSE buffer
  /\ consumed' = consumed + (Len(buffer) - Len(buffer'))
  /\ pc' = "recv"
  /\ UNCHANGED <<stream, yielded, nchunks, conns, leftover, mainVars, engVars, svcVars>>

\* the frame is not complete yet: break
ParseIncomplete ==
  /\ pc = "parse"
  /\ Find(buffer) # -1
  /\ Len(buffer) >= Find(buffer) + MIN_HDR
  /\ LET header_index == Find(buffer)
         pkt_type == buffer[header_index + 4 + 1]
     IN  Len(buffer) < header_index + PacketLen(pkt_type)
  /\ pc' = "recv"
  /\ UNCHANGED <<buffer, stream, consumed, yielded, nchunks, conns, leftover, mainVars,
                 engVars, svcVars>>

\* yield pkt_type, bytes(packet); del buffer[: header_index + packet_len]
ParseYield ==
  /\ pc = "parse"
  /\ Find(buffer) # -1
  /\ Len(buffer) >= Find(buffer) + MIN_HDR
  /\ LET header_index == Find(buffer)
         pkt_type == buffer[header_index + 4 + 1]
         packet_len == PacketLen(pkt_type)
     IN  /\ Len(buffer) >= header_index + packet_len
         /\ yielded' = Append(yielded,
               [ptype |-> pkt_type,
                pkt |-> SubSeq(buffer, header_index + 1, header_index + packet_len),
                start |-> consumed + header_index])
         /\ buffer' = SubSeq(buffer, header_index + packet_len + 1, Len(buffer))
         /\ consumed' = consumed + header_index + packet_len
  /\ UNCHANGED <<pc, stream, nchunks, conns, leftover, mainVars, engVars, svcVars>>

Next ==
  \/ Connect
  \/ \E chunk \in Chunks : Recv(chunk)
  \/ ConnLost
  \/ ParseNoHeader
  \/ ParseShort
  \/ ParseIncomplete
  \/ ParseYield

Spec == Init /\ [][Next]_vars

\* ---- the extractor fed with chunks of the largest size
\* sock.recv(1024)
RECV_MAX == 1024

\* a full chunk without marker, one that fills the buffer to the cap exactly,
\* a full chunk that ends with a marker, the first 303 bytes of a 0x02 frame
\* after its marker, and one more byte
BigChunks ==
  { Pad(RECV_MAX), Pad(buffer_size), Pad(RECV_MAX - 4) \o HEADER, <<2, 0>> \o Pad(301),
    <<0>> }

NextGrowth ==
  \/ Connect
  \/ \E chunk \in BigChunks : Recv(chunk)
  \/ ConnLost
  \/ ParseNoHeader
  \/ ParseShort
  \/ ParseIncomplete
  \/ ParseYield

SpecGrowth == Init /\ [][NextGrowth]_vars

\* ------------------------- app/transport.py: the connection loop, step by step
\* the services that the connection loop leaves alone
restVars == <<mainVars, engVars, decVars, pubVars, spVars, appVars, discVars>>

\* where control goes when the try block is left: a break of the inner loop
\* falls out of the try, an exception is taken by one of the except clauses
\* (socket.timeout, ConnectionRefusedError, Exception); the finally clause is next
AfterFailure(kind) == "finally"

\* socket.socket(...) raises (kind "socket", sock stays None) or
\* sock.connect(...) raises (timeout, refused, any other exception)
TcpConnectFailed(kind) ==
  /\ pc = "connect"
  /\ kind # "socket" => t_failed < MaxTcpFails
  /\ pc' = AfterFailure(kind)
  /\ t_sock' = IF kind = "socket" THEN "None" ELSE "open"
  /\ t_failed' = IF kind = "socket" THEN t_failed ELSE t_failed + 1
  /\ UNCHANGED <<buffer, stream, consumed, yielded, nchunks, conns, leftover,
                 t_closed, t_timeouts, restVars>>

\* chunk = sock.recv(1024) returns b"" (kind "empty"), raises
\* ConnectionResetError / BrokenPipeError ("reset") or anything else ("error"):
\* break
TcpLost(kind) ==
  /\ pc = "recv"
  /\ pc' = AfterFailure(kind)
  /\ t_sock' = "open"
  /\ leftover' = buffer
  /\ UNCHANGED <<buffer, stream, consumed, yielded, nchunks, conns, t_closed,
                 t_failed, t_timeouts, restVars>>

\* the finally clause forgets the socket without closing it
TcpFinally_Leaks ==
  /\ pc = "finally"
  /\ t_sock' = "None"
  /\ pc' = "sleep"
  /\ UNCHANGED <<buffer, stream, consumed, yielded, nchunks, conns, leftover,
                 t_closed, t_failed, t_timeouts, restVars>>

\* finally: if sock: sock.close(); sock = None
TcpFinally ==
  /\ pc = "finally"
  /\ t_closed' = IF t_sock = "open" THEN t_closed + 1 ELSE t_closed
  /\ t_sock' = "None"
  /\ pc' = "sleep"
  /\ UNCHANGED <<buffer, stream, consumed, yielded, nchunks, conns, leftover,
                 t_failed, t_timeouts, restVars>>

\* time.sleep(5), then the next pass of the outer while True
TcpSleep ==
  /\ pc = "sleep"
  /\ pc' = "connect"
  /\ UNCHANGED <<buffer, stream, consumed, yielded, nchunks, conns, leftover,
                 tcpVars, restVars>>

\* except socket.timeout: continue
TcpRecvTimeout ==
  /\ pc = "recv"
  /\ t_timeouts < MaxTimeouts
  /\ t_timeouts' = t_timeouts + 1
  /\ UNCHANGED <<pc, buffer, stream, consumed, yielded, nchunks, conns, leftover,
                 t_sock, t_closed, t_failed, restVars>>

\* one connection attempt, successful or not
TcpAttempt ==
  \/ Connect
  \/ \E kind \in {"socket", "timeout", "refused", "error"} : TcpConnectFailed(kind)

NextTcp ==
  \/ Connect
  \/ \E kind \in {"socket", "timeout", "refused", "error"} : TcpConnectFailed(kind)
  \/ \E chunk \in Chunks : Recv(chunk)
  \/ TcpRecvTimeout
  \/ \E kind \in {"empty", "reset", "error"} : TcpLost(kind)
  \/ TcpFinally
  \/ TcpSleep
  \/ ParseNoHeader
  \/ ParseShort
  \/ ParseIncomplete
  \/ ParseYield

\* sock.close(), time.sleep(5), socket.socket() and sock.connect() (which has
\* a timeout set) return or raise
SpecTcp ==
  Init /\ [][NextTcp]_vars
    /\ WF_vars(TcpFinally) /\ WF_vars(TcpSleep) /\ WF_vars(TcpAttempt)

\* ------------------------------------------------- nested app/main.py: main()
\* app.packet_expire_time (default 0.4 s), in ticks
PACKET_EXPIRE_TIME == 1
\* tcp.timeout (default 10 s), in ticks
SOCKET_TIMEOUT == 25
\* if age > 10 (seconds), in ticks
IDLE_DROP_AGE == 25

\* struct.unpack_from('<I', packet, offset)[0]
U32LE(packet, offset) ==
  packet[offset + 1] + 256 * packet[offset + 2]
    + 65536 * packet[offset + 3] + 16777216 * packet[offset + 4]

\* struct.unpack_from('<H', packet, offset)[0]
U16LE(packet, offset) == packet[offset + 1] + 256 * packet[offset + 2]

\* the id is read as a 16-bit register
extract_device_address_U16(packet_0x01) ==
  IF Len(packet_0x01) >= 274 THEN U16LE(packet_0x01, 270) ELSE 0

\* the id is read 4 bytes further into the packet
extract_device_address_274(packet_0x01) ==
  IF Len(packet_0x01) >= 278 THEN U32LE(packet_0x01, 274) ELSE 0

\* extract_device_address: U32 at 6 (header) + 264, 0 for a short packet
extract_device_address(packet_0x01) ==
  IF Len(packet_0x01) >= 274 THEN U32LE(packet_0x01, 270) ELSE 0

\* BMS_MAP: the tuple length of every entry, in the order of sorted(keys)
BMS_MAP_EntryLens ==
  (1 :> <<6, 6, 6, 6, 6, 6, 6, 6, 6, 6, 6, 6, 6, 6, 6, 6, 6, 6, 6, 6, 6, 6, 6,
          6, 6, 6, 6, 6, 6, 6, 6, 6, 6, 6, 6, 6, 4, 6>>) @@
  (2 :> <<6, 6, 6, 6, 6, 6, 6, 6, 6, 6, 6, 6, 6, 6, 6, 6, 6, 6, 6, 6, 6, 6, 4,
          6, 6, 6, 6, 6, 6, 6, 4, 6, 6, 6, 6, 6, 6, 4, 6, 6, 6, 4, 6, 6, 6, 6,
          6, 6, 6, 4, 6, 6, 6, 6, 6, 6, 6, 6, 6, 6>>)

\* MqttPublisher.process_and_publish, as its caller sees it:
\*   "unknown"   packet_type not in BMS_MAP: return
\*   "raised"    name, unit, dtype, converter = register_def[offset] raises
\*               ValueError on an entry that is not a 4-tuple
\*   "returned"  the payload was built and passed on (throttled or published)
process_and_publish(data_packet, device_id, packet_type) ==
  IF packet_type \notin DOMAIN BMS_MAP_EntryLens THEN "unknown"
  ELSE LET lens == BMS_MAP_EntryLens[packet_type] IN
       IF \E i \in 1..Len(lens) : lens[i] # 4 THEN "raised" ELSE "returned"

\* the stored packet is kept when one is already pending
StoreRealtime_KeepFirst(pending, packet) ==
  IF pending # None THEN pending ELSE packet

\* pending_realtime_packet = packet[:] (an earlier one is overwritten)
StoreRealtime(pending, packet) == packet

Call(packet, device_id, packet_type, t) ==
  [dev |-> device_id, ptype |-> packet_type, pkt |-> packet, at |-> t,
   result |-> process_and_publish(packet, device_id, packet_type)]

\* the settings packet is published only when a 0x02 packet is pending
HandleAddress_OnlyWithPending(packet, pending, last, t) ==
  LET current_id == extract_device_address(packet)
      call1 == Call(packet, current_id, 1, t)
  IN  IF pending = None THEN [calls |-> <<>>, pending |-> pending, raised |-> FALSE]
      ELSE [calls |-> <<call1>>, pending |-> pending, raised |-> TRUE]

\* the stored 0x02 packet is published before the settings packet
HandleAddress_RealtimeFirst(packet, pending, last, t) ==
  LET current_id == extract_device_address(packet)
      call1 == Call(packet, current_id, 1, t)
      call2 == Call(pending, current_id, 2, t)
  IN  IF pending # None /\ t - last < PACKET_EXPIRE_TIME
      THEN [calls |-> <<call2>>, pending |-> pending, raised |-> TRUE]
      ELSE [calls |-> <<call1>>, pending |-> pending, raised |-> TRUE]

\* elif pkt_type == 0x01: the calls made, the pending packet afterwards and
\* whether an exception left the branch
HandleAddress(packet, pending, last, t) ==
  LET current_id == extract_device_address(packet)
      call1 == Call(packet, current_id, 1, t)
      call2 == Call(pending, current_id, 2, t)
  IN  IF call1.result = "raised"
      THEN [calls |-> <<call1>>, pending |-> pending, raised |-> TRUE]
      ELSE IF pending # None
      THEN IF t - last < PACKET_EXPIRE_TIME
           THEN IF call2.result = "raised"
                THEN [calls |-> <<call1, call2>>, pending |-> pending, raised |-> TRUE]
                ELSE [calls |-> <<call1, call2>>, pending |-> None, raised |-> FALSE]
           ELSE [calls |-> <<call1>>, pending |-> None, raised |-> FALSE]
      ELSE [calls |-> <<call1>>, pending |-> pending, raised |-> FALSE]

\* the calls of one frame, with the index of that frame in handled
By(calls, n) ==
  [i \in 1..Len(calls) |->
     [dev |-> calls[i].dev, ptype |-> calls[i].ptype, pkt |-> calls[i].pkt,
      at |-> calls[i].at, result |-> calls[i].result, by |-> n]]

\* ---- input chunks of the main loop
\* a 0x02 frame; k tells two frames apart
Tel(k) == HEADER \o <<2, 0, k>> \o Pad(301)
\* a 0x01 frame that reports the device address id (< 256) at 270..273
Ident(id) == HEADER \o <<1, 0>> \o Pad(264) \o <<id, 0, 0, 0>> \o <<9, 0, 0, 0>> \o Pad(22)

MainChunks ==
  { Tel(1), Tel(2), Ident(7), Cmd5 \o Ident(0), Cmd5 \o Ident(7),
    Frame(3) \o HEADER, Tel(1) \o Ident(7) \o Tel(2) }

\* sock.connect(...); buffer = bytearray()
MainConnect ==
  /\ m_pc = "connect"
  /\ m_conns < MaxConns
  /\ m_conns' = m_conns + 1
  /\ m_buffer' = <<>>
  /\ m_stream' = <<>>
  /\ m_pc' = "recv"
  /\ UNCHANGED <<pending_realtime_packet, last_realtime_time, now, sink, handled,
                 m_chunks, notices, extVars, engVars, svcVars>>

\* chunk = sock.recv(1024); buffer.extend(chunk)
MainRecv(chunk) ==
  /\ m_pc = "recv"
  /\ m_chunks < MaxMainChunks
  /\ m_chunks' = m_chunks + 1
  /\ m_buffer' = m_buffer \o chunk
  /\ m_stream' = m_stream \o chunk
  /\ m_pc' = "parse"
  /\ UNCHANGED <<pending_realtime_packet, last_realtime_time, now, sink, handled,
                 m_conns, notices, extVars, engVars, svcVars>>

\* if not chunk: break; the socket is closed and the outer loop reconnects
MainConnLost ==
  /\ m_pc = "recv"
  /\ m_conns < MaxConns
  /\ m_pc' = "connect"
  /\ UNCHANGED <<m_buffer, pending_realtime_packet, last_realtime_time, now, sink,
                 handled, m_chunks, m_conns, m_stream, notices, extVars, engVars, svcVars>>

\* except socket.timeout: recv blocked for SOCKET_TIMEOUT; a 0x02 packet
\* stored more than 10 s ago is dropped
MainTimeout ==
  /\ m_pc = "recv"
  /\ now < MaxTime
  /\ now' = now + SOCKET_TIMEOUT
  /\ pending_realtime_packet' =
       IF pending_realtime_packet # None /\ now' - last_realtime_time > IDLE_DROP_AGE
       THEN None ELSE pending_realtime_packet
  /\ notices' =
       IF pending_realtime_packet # None /\ now' - last_realtime_time > IDLE_DROP_AGE
       THEN [notices EXCEPT !.idle = @ + 1] ELSE notices
  /\ UNCHANGED <<m_pc, m_buffer, last_realtime_time, sink, handled, m_chunks,
                 m_conns, m_stream, extVars, engVars, svcVars>>

\* the clock advances while recv blocks (handling a chunk takes no tick)
Tick ==
  /\ m_pc = "recv"
  /\ now < MaxTime
  /\ now' = now + 1
  /\ UNCHANGED <<m_pc, m_buffer, pending_realtime_packet, last_realtime_time, sink,
                 handled, m_chunks, m_conns, m_stream, notices, extVars, engVars, svcVars>>

\* header_index == -1: truncate above the cap, break
MainNoHeader ==
  /\ m_pc = "parse"
  /\ Find(m_buffer) = -1
  /\ m_buffer' = IF Len(m_buffer) > buffer_size THEN LastN(m_buffer, TAIL_KEEP)
                 ELSE m_buffer
  /\ m_pc' = "recv"
  /\ UNCHANGED <<pending_realtime_packet, last_realtime_time, now, sink, handled,
                 m_chunks, m_conns, m_stream, notices, extVars, engVars, svcVars>>

\* len(buffer) < header_index + 6, or the frame is not complete: break
MainIncomplete ==
  /\ m_pc = "parse"
  /\ Find(m_buffer) # -1
  /\ IF Len(m_buffer) < Find(m_buffer) + MIN_HDR THEN TRUE
     ELSE Len(m_buffer) < Find(m_buffer) + PacketLen(m_buffer[Find(m_buffer) + 4 + 1])
  /\ m_pc' = "recv"
  /\ UNCHANGED <<m_buffer, pending_realtime_packet, last_realtime_time, now, sink,
                 handled, m_chunks, m_conns, m_stream, notices, extVars, engVars, svcVars>>

\* the exception leaves the loop
AfterException_Stops == "stopped"

\* except Exception as e: print(...); buffer = bytearray(): the handler is
\* inside the inner while True, which goes on with recv
AfterException == "recv"

\* a complete frame is at the first marker: it is handled by its type and
\* removed from the buffer; an exception resets the buffer instead
MainPacket ==
  /\ m_pc = "parse"
  /\ Find(m_buffer) # -1
  /\ Len(m_buffer) >= Find(m_buffer) + MIN_HDR
  /\ LET header_index == Find(m_buffer)
         pkt_type == m_buffer[header_index + 4 + 1]
         packet_len == PacketLen(pkt_type)
         packet == SubSeq(m_buffer, header_index + 1, header_index + packet_len)
         rest == SubSeq(m_buffer, header_index + packet_len + 1, Len(m_buffer))
         n == Len(handled) + 1
         r == HandleAddress(packet, pending_realtime_packet, last_realtime_time, now)
     IN  /\ Len(m_buffer) >= header_index + packet_len
         /\ handled' = Append(handled,
               [ptype |-> pkt_type, pkt |-> packet, at |-> now,
                skipped |-> SubSeq(m_buffer, 1, header_index), conn |-> m_conns,
                seen |-> Len(m_stream)])
         /\ IF pkt_type = 2
            THEN /\ pending_realtime_packet' = StoreRealtime(pending_realtime_packet, packet)
                 /\ last_realtime_time' = now
                 /\ notices' = IF pending_realtime_packet # None
                               THEN [notices EXCEPT !.overwritten = @ + 1]
                               ELSE notices
                 /\ m_buffer' = rest
                 /\ UNCHANGED <<sink, m_pc>>
            ELSE IF pkt_type = 1
            THEN /\ sink' = sink \o By(r.calls, n)
                 /\ pending_realtime_packet' = r.pending
                 /\ m_buffer' = IF r.raised THEN <<>> ELSE rest
                 /\ m_pc' = IF r.raised THEN AfterException ELSE "parse"
                 /\ notices' = IF /\ pending_realtime_packet # None
                                  /\ r.calls[1].result # "raised"
                                  /\ ~(now - last_realtime_time < PACKET_EXPIRE_TIME)
                               THEN [notices EXCEPT !.expired = @ + 1]
                               ELSE notices
                 /\ UNCHANGED last_realtime_time
            ELSE /\ m_buffer' = rest
                 /\ UNCHANGED <<pending_realtime_packet, last_realtime_time, sink,
                                m_pc, notices>>
  /\ UNCHANGED <<now, m_chunks, m_conns, m_stream, extVars, engVars, svcVars>>

NextMain ==
  \/ MainConnect
  \/ \E chunk \in MainChunks : MainRecv(chunk)
  \/ MainConnLost
  \/ MainTimeout
  \/ Tick
  \/ MainNoHeader
  \/ MainIncomplete
  \/ MainPacket

SpecMain == Init /\ [][NextMain]_vars

\* ---- the main loop fed with frames of another subtype
\* a 0x02 frame, a frame of subtype 3 followed by a 0x01 frame of device 7,
\* that 0x01 frame alone, the first six bytes of the frame of subtype 3 and
\* the rest of it
OtherChunks ==
  { Tel(1), Frame(3) \o Ident(7), Ident(7), SubSeq(Frame(3), 1, 6),
    SubSeq(Frame(3), 7, 300) }

NextOther ==
  \/ MainConnect
  \/ \E chunk \in OtherChunks : MainRecv(chunk)
  \/ MainConnLost
  \/ MainTimeout
  \/ Tick
  \/ MainNoHeader
  \/ MainIncomplete
  \/ MainPacket

SpecOther == Init /\ [][NextOther]_vars

\* ---- the extractor of app/transport.py fed with 0x01 frames that carry an id
\* a 0x01 frame of device 7 cut one byte before the end of its id field, a
\* marker alone, the rest of a 0x01 frame of device 3, and a 0x02 frame
IdentChunks ==
  { SubSeq(Ident(7), 1, 273), SubSeq(Ident(7), 274, 300), HEADER,
    SubSeq(Ident(3), 5, 300), Tel(1) }

NextIdent ==
  \/ Connect
  \/ \E chunk \in IdentChunks : Recv(chunk)
  \/ ConnLost
  \/ ParseNoHeader
  \/ ParseShort
  \/ ParseIncomplete
  \/ ParseYield

SpecIdent == Init /\ [][NextIdent]_vars

\* ------------------------------------- correlation engine with command frames
\* an empty slot
NoFrame == [n |-> 0, at |-> 0]

\* AttributionDecision: the target of an Identity frame that reports
\* self_reported_id at arrival_time
Target_LastCommanded(self_reported_id, arrival_time) ==
  IF last_commanded_id = -1 THEN 0 ELSE last_commanded_id

Target(self_reported_id, arrival_time) ==
  IF self_reported_id = 0 THEN 0
  ELSE IF last_commanded_id = -1 \/ arrival_time - last_command_time > EXPIRY THEN 0
  ELSE last_commanded_id

\* the command is emitted as soon as it arrives
OnCommand_EmitsAtOnce(target_device_id) ==
  /\ Len(frames) < MaxFrames
  /\ frames' = Append(frames, [kind |-> "Command", id |-> target_device_id, at |-> clock])
  /\ last_commanded_id' = target_device_id
  /\ last_command_time' = clock
  /\ emitted' = Append(emitted,
        [kind |-> "Command", n |-> Len(frames) + 1, target |-> target_device_id,
         at |-> clock, by |-> Len(frames) + 1])
  /\ UNCHANGED <<PendingCommand, PendingTelemetry, clock, stale_dropped, purged,
                 extVars, mainVars, svcVars>>

\* On Command frame: remember the target and the time, hold the command
OnCommand(target_device_id) ==
  /\ Len(frames) < MaxFrames
  /\ frames' = Append(frames, [kind |-> "Command", id |-> target_device_id, at |-> clock])
  /\ last_commanded_id' = target_device_id
  /\ last_command_time' = clock
  /\ PendingCommand' = [PendingCommand EXCEPT
        ![target_device_id] = [n |-> Len(frames) + 1, at |-> clock]]
  /\ UNCHANGED <<PendingTelemetry, clock, emitted, stale_dropped, purged,
                 extVars, mainVars, svcVars>>

\* On Telemetry frame: count and replace an occupied slot
OnTelemetry ==
  /\ Len(frames) < MaxFrames
  /\ frames' = Append(frames, [kind |-> "Telemetry", id |-> -1, at |-> clock])
  /\ stale_dropped' = IF PendingTelemetry.n # 0 THEN stale_dropped + 1 ELSE stale_dropped
  /\ PendingTelemetry' = [n |-> Len(frames) + 1, at |-> clock]
  /\ UNCHANGED <<PendingCommand, last_commanded_id, last_command_time, clock, emitted,
                 purged, extVars, mainVars, svcVars>>

\* On Identity frame: decide the target, release its command, purge the other
\* expired commands, emit the frame itself and the pending telemetry
OnIdentity(self_reported_id) ==
  /\ Len(frames) < MaxFrames
  /\ LET arrival_time == clock
         n == Len(frames) + 1
         target == Target(self_reported_id, arrival_time)
         release == target \in CmdTargets /\ PendingCommand[target].n # 0
         expired == {x \in CmdTargets : /\ x # target
                                        /\ PendingCommand[x].n # 0
                                        /\ arrival_time - PendingCommand[x].at > EXPIRY}
         fresh == /\ PendingTelemetry.n # 0
                  /\ arrival_time - PendingTelemetry.at <= EXPIRY
     IN  /\ frames' = Append(frames,
               [kind |-> "Identity", id |-> self_reported_id, at |-> arrival_time])
         /\ emitted' = emitted
               \o (IF release
                   THEN <<[kind |-> "Command", n |-> PendingCommand[target].n,
                           target |-> target, at |-> arrival_time, by |-> n]>>
                   ELSE <<>>)
               \o <<[kind |-> "Identity", n |-> n, target |-> target,
                     at |-> arrival_time, by |-> n]>>
               \o (IF fresh
                   THEN <<[kind |-> "Telemetry", n |-> PendingTelemetry.n,
                           target |-> target, at |-> arrival_time, by |-> n]>>
                   ELSE <<>>)
         /\ PendingCommand' = [x \in CmdTargets |->
               IF x = target \/ x \in expired THEN NoFrame ELSE PendingCommand[x]]
         /\ purged' = purged \cup {PendingCommand[x].n : x \in expired}
         /\ stale_dropped' = IF PendingTelemetry.n # 0 /\ ~fresh
                             THEN stale_dropped + 1 ELSE stale_dropped
         /\ PendingTelemetry' = NoFrame
  /\ UNCHANGED <<last_commanded_id, last_command_time, clock, extVars, mainVars, svcVars>>

\* time passes between two frames
EngineTick ==
  /\ clock < MaxTime
  /\ clock' = clock + 1
  /\ UNCHANGED <<PendingTelemetry, PendingCommand, last_commanded_id, last_command_time,
                 frames, emitted, stale_dropped, purged, extVars, mainVars, svcVars>>

NextEngine ==
  \/ \E x \in CmdTargets : OnCommand(x)
  \/ OnTelemetry
  \/ \E id \in SelfIds : OnIdentity(id)
  \/ EngineTick

SpecEngine == Init /\ [][NextEngine]_vars

\* ------------------------------------------------------------ app/decoder.py
\* HEADER_LEN = 6  (0x55 0xAA 0xEB 0x90 + 2 bytes)
HEADER_LEN == 6

\* bms_registers.py: BMS_MAP[packet_type][offset] = (name, unit, dtype,
\* converter, ...). A field is named here by the ASCII key of its entry
\* (entry[6]); the keys stand one-to-one for the names entry[0] that key the
\* payload.
REG_10h ==
   0 :> [name |-> "target_slave_id", dtype |-> "B", converter |-> "conv_none"] @@
   2 :> [name |-> "register", dtype |-> "H", converter |-> "conv_hex"] @@
   7 :> [name |-> "value_hex", dtype |-> "H", converter |-> "conv_hex"]

REG_01h ==
   0 :> [name |-> "sleep_voltage", dtype |-> "I", converter |-> "conv_div1000"] @@
   4 :> [name |-> "cell_uvp", dtype |-> "I", converter |-> "conv_div1000"] @@
   8 :> [name |-> "cell_uvp_recovery", dtype |-> "I", converter |-> "conv_div1000"] @@
   12 :> [name |-> "cell_ovp", dtype |-> "I", converter |-> "conv_div1000"] @@
   16 :> [name |-> "cell_ovp_recovery", dtype |-> "I", converter |-> "conv_div1000"] @@
   20 :> [name |-> "balance_trigger_diff", dtype |-> "I", converter |-> "conv_div1000"] @@
   24 :> [name |-> "soc_100_voltage", dtype |-> "I", converter |-> "conv_div1000"] @@
   28 :> [name |-> "soc_0_voltage", dtype |-> "I", converter |-> "conv_div1000"] @@
   32 :> [name |-> "rec_charge_voltage", dtype |-> "I", converter |-> "conv_div1000"] @@
   36 :> [name |-> "float_charge_voltage", dtype |-> "I", converter |-> "conv_div1000"] @@
   40 :> [name |-> "auto_shutdown_voltage", dtype |-> "I", converter |-> "conv_div1000"] @@
   44 :> [name |-> "cont_charge_current", dtype |-> "I", converter |-> "conv_div1000"] @@
   48 :> [name |-> "charge_ocp_delay", dtype |-> "I", converter |-> "conv_none"] @@
   52 :> [name |-> "charge_ocp_release", dtype |-> "I", converter |-> "conv_none"] @@
   56 :> [name |-> "cont_discharge_current", dtype |-> "I", converter |-> "conv_div1000"] @@
   60 :> [name |-> "discharge_ocp_delay", dtype |-> "I", converter |-> "conv_none"] @@
   64 :> [name |-> "discharge_ocp_release", dtype |-> "I", converter |-> "conv_none"] @@
   68 :> [name |-> "sc_release", dtype |-> "I", converter |-> "conv_none"] @@
   72 :> [name |-> "max_balance_current", dtype |-> "I", converter |-> "conv_none"] @@
   76 :> [name |-> "charge_otp", dtype |-> "i", converter |-> "conv_div10"] @@
   80 :> [name |-> "charge_otp_recovery", dtype |-> "i", converter |-> "conv_div10"] @@
   84 :> [name |-> "discharge_otp", dtype |-> "i", converter |-> "conv_div10"] @@
   88 :> [name |-> "discharge_otp_recovery", dtype |-> "i", converter |-> "conv_div10"] @@
   92 :> [name |-> "charge_utp", dtype |-> "i", converter |-> "conv_div10"] @@
   96 :> [name |-> "charge_utp_recovery", dtype |-> "i", converter |-> "conv_div10"] @@
   100 :> [name |-> "mos_otp", dtype |-> "i", converter |-> "conv_div10"] @@
   104 :> [name |-> "mos_otp_recovery", dtype |-> "i", converter |-> "conv_div10"] @@
   108 :> [name |-> "cell_count", dtype |-> "I", converter |-> "conv_none"] @@
   112 :> [name |-> "charge_switch", dtype |-> "I", converter |-> "conv_none"] @@
   116 :> [name |-> "discharge_switch", dtype |-> "I", converter |-> "conv_none"] @@
   120 :> [name |-> "balance_switch", dtype |-> "I", converter |-> "conv_none"] @@
   128 :> [name |-> "sc_delay", dtype |-> "I", converter |-> "conv_none"] @@
   132 :> [name |-> "balance_start_voltage", dtype |-> "I", converter |-> "conv_div1000"] @@
   264 :> [name |-> "device_address", dtype |-> "I", converter |-> "conv_hex"] @@
   280 :> [name |-> "smart_sleep_time", dtype |-> "B", converter |-> "conv_none"]

REG_02h ==
   0 :> [name |-> "cell_01_voltage", dtype |-> "H", converter |-> "conv_div1000"] @@
   2 :> [name |-> "cell_02_voltage", dtype |-> "H", converter |-> "conv_div1000"] @@
   4 :> [name |-> "cell_03_voltage", dtype |-> "H", converter |-> "conv_div1000"] @@
   6 :> [name |-> "cell_04_voltage", dtype |-> "H", converter |-> "conv_div1000"] @@
   8 :> [name |-> "cell_05_voltage", dtype |-> "H", converter |-> "conv_div1000"] @@
   10 :> [name |-> "cell_06_voltage", dtype |-> "H", converter |-> "conv_div1000"] @@
   12 :> [name |-> "cell_07_voltage", dtype |-> "H", converter |-> "conv_div1000"] @@
   14 :> [name |-> "cell_08_voltage", dtype |-> "H", converter |-> "conv_div1000"] @@
   16 :> [name |-> "cell_09_voltage", dtype |-> "H", converter |-> "conv_div1000"] @@
   18 :> [name |-> "cell_10_voltage", dtype |-> "H", converter |-> "conv_div1000"] @@
   20 :> [name |-> "cell_11_voltage", dtype |-> "H", converter |-> "conv_div1000"] @@
   22 :> [name |-> "cell_12_voltage", dtype |-> "H", converter |-> "conv_div1000"] @@
   24 :> [name |-> "cell_13_voltage", dtype |-> "H", converter |-> "conv_div1000"] @@
   26 :> [name |-> "cell_14_voltage", dtype |-> "H", converter |-> "conv_div1000"] @@
   28 :> [name |-> "cell_15_voltage", dtype |-> "H", converter |-> "conv_div1000"] @@
   30 :> [name |-> "cell_16_voltage", dtype |-> "H", converter |-> "conv_div1000"] @@
   68 :> [name |-> "avg_voltage", dtype |-> "H", converter |-> "conv_div1000"] @@
   70 :> [name |-> "max_diff_voltage", dtype |-> "H", converter |-> "conv_div1000"] @@
   72 :> [name |-> "max_cell_index", dtype |-> "B", converter |-> "conv_plus1"] @@
   73 :> [name |-> "min_cell_index", dtype |-> "B", converter |-> "conv_plus1"] @@
   138 :> [name |-> "power_board_temp", dtype |-> "h", converter |-> "conv_div10"] @@
   144 :> [name |-> "total_voltage", dtype |-> "I", converter |-> "conv_div1000"] @@
   148 :> [name |-> "power_watts", dtype |-> "I", converter |-> "conv_div1000"] @@
   152 :> [name |-> "current", dtype |-> "i", converter |-> "conv_div1000"] @@
   156 :> [name |-> "temp_sensor_1", dtype |-> "h", converter |-> "conv_div10"] @@
   158 :> [name |-> "temp_sensor_2", dtype |-> "h", converter |-> "conv_div10"] @@
   164 :> [name |-> "balance_current", dtype |-> "h", converter |-> "conv_none"] @@
   166 :> [name |-> "balance_action", dtype |-> "B", converter |-> "conv_none"] @@
   167 :> [name |-> "soc_percent", dtype |-> "B", converter |-> "conv_none"] @@
   168 :> [name |-> "remaining_capacity_ah", dtype |-> "i", converter |-> "conv_div1000"] @@
   172 :> [name |-> "actual_capacity_ah", dtype |-> "I", converter |-> "conv_div1000"] @@
   176 :> [name |-> "cycle_count", dtype |-> "I", converter |-> "conv_none"] @@
   180 :> [name |-> "total_cycle_capacity", dtype |-> "I", converter |-> "conv_div1000"] @@
   188 :> [name |-> "runtime_seconds", dtype |-> "I", converter |-> "conv_none"] @@
   192 :> [name |-> "charge_status_hex", dtype |-> "H", converter |-> "conv_hex"] @@
   196 :> [name |-> "discharge_ocp_release_time", dtype |-> "H", converter |-> "conv_none"] @@
   198 :> [name |-> "discharge_sc_release_time", dtype |-> "H", converter |-> "conv_none"] @@
   200 :> [name |-> "charge_ocp_release_time", dtype |-> "H", converter |-> "conv_none"] @@
   202 :> [name |-> "charge_sc_release_time", dtype |-> "H", converter |-> "conv_none"] @@
   204 :> [name |-> "cell_uvp_release_time", dtype |-> "H", converter |-> "conv_none"] @@
   206 :> [name |-> "cell_ovp_release_time", dtype |-> "H", converter |-> "conv_none"] @@
   212 :> [name |-> "emergency_switch_time", dtype |-> "H", converter |-> "conv_none"] @@
   248 :> [name |-> "temp_sensor_3", dtype |-> "h", converter |-> "conv_div10"] @@
   250 :> [name |-> "temp_sensor_4", dtype |-> "h", converter |-> "conv_div10"] @@
   252 :> [name |-> "temp_sensor_5", dtype |-> "h", converter |-> "conv_div10"] @@
   264 :> [name |-> "sleep_time_seconds", dtype |-> "I", converter |-> "conv_none"]

BMS_MAP == (16 :> REG_10h) @@ (1 :> REG_01h) @@ (2 :> REG_02h)

\* BMS_MAP with one more 0x01 entry, of TYPE_STR, whose converter divides:
\* conv_div1000(b'A') raises TypeError
BMS_MAP_Str ==
  [BMS_MAP EXCEPT ![1] =
     (124 :> [name |-> "design_text", dtype |-> "s", converter |-> "conv_div1000"]) @@ @]

\* the register maps decode_packet is run with
Maps == {"BMS_MAP", "BMS_MAP_Str"}

MapOf(k) == IF k = "BMS_MAP" THEN BMS_MAP ELSE BMS_MAP_Str

\* BMS_MAP[packet_type], an empty dict for a type the map does not hold
RegOf(map, packet_type) ==
  IF packet_type \in DOMAIN map THEN map[packet_type] ELSE NoFields

\* ---- Python values: each carries its type
\* None
NoneV == [t |-> "None"]
\* an int
IntV(n) == [t |-> "int", n |-> n]
\* the float n / den
FloatV(n, den) == [t |-> "float", n |-> n, den |-> den]
\* a str, as its characters
StrV(s) == [t |-> "str", s |-> s]
\* a bool
BoolV(b) == [t |-> "bool", b |-> b]
\* a bytes object
BytesV(s) == [t |-> "bytes", s |-> s]

\* struct.calcsize("<" + dtype)
Width(dtype) ==
  CASE dtype \in {"B", "s"} -> 1
    [] dtype \in {"H", "h"} -> 2
    [] dtype \in {"I", "i"} -> 4

\* only "i" is read as a signed number
Signed_OnlyI(dtype) == dtype = "i"

\* the lower-case struct codes are signed
Signed(dtype) == dtype \in {"h", "i"}

Pow256(k) == CASE k = 0 -> 1 [] k = 1 -> 256 [] k = 2 -> 65536 [] k = 3 -> 16777216

\* struct.unpack_from("<" + dtype, data, offset)[0] of an integer code: the
\* little-endian bytes, the top one carrying the sign of a signed code
unpack_from(dtype, data, offset) ==
  LET w == Width(dtype)
      top == data[offset + w]
      stop == IF Signed(dtype) /\ top >= 128 THEN top - 256 ELSE top
      low == IF w = 1 THEN 0
             ELSE IF w = 2 THEN data[offset + 1]
             ELSE data[offset + 1] + 256 * data[offset + 2] + 65536 * data[offset + 3]
  IN  stop * Pow256(w - 1) + low

\* bytes missing at the end of the packet are read as zero
get_value_Padded(data, offset, dtype) ==
  LET padded == data \o Pad(4) IN
  IF offset >= Len(data) THEN NoneV
  ELSE IF dtype = "B" THEN IntV(data[offset + 1])
  ELSE IF dtype = "s" THEN BytesV(<<data[offset + 1]>>)
  ELSE IntV(unpack_from(dtype, padded, offset))

\* get_value: None when the read raises (IndexError, struct.error)
get_value(data, offset, dtype) ==
  IF dtype = "B"
  THEN IF offset < Len(data) THEN IntV(data[offset + 1]) ELSE NoneV
  ELSE IF offset + Width(dtype) > Len(data) THEN NoneV
  ELSE IF dtype = "s" THEN BytesV(<<data[offset + 1]>>)
  ELSE IntV(unpack_from(dtype, data, offset))

HexChars == <<"0", "1", "2", "3", "4", "5", "6", "7", "8", "9",
              "A", "B", "C", "D", "E", "F">>

\* the last k hexadecimal digits of n >= 0, upper case
HexDigits(n, k) ==
  [i \in 1..k |-> HexChars[((n \div (16 ^ (k - i))) % 16) + 1]]

\* f"0x{v:08X}"
conv_hex(v) ==
  IF v >= 0 THEN <<"0", "x">> \o HexDigits(v, 8)
  ELSE <<"0", "x", "-">> \o HexDigits(0 - v, 7)

\* converter(raw_val): [raised, val]; the arithmetic converters raise
\* TypeError / ValueError on a value that is not a number
Apply(converter, v) ==
  IF converter = "conv_none" THEN [raised |-> FALSE, val |-> v]
  ELSE IF v.t # "int" THEN [raised |-> TRUE, val |-> v]
  ELSE [raised |-> FALSE,
        val |-> CASE converter = "conv_div1000" -> FloatV(v.n, 1000)
                  [] converter = "conv_div100" -> FloatV(v.n, 100)
                  [] converter = "conv_div10" -> FloatV(v.n, 10)
                  [] converter = "conv_hex" -> StrV(conv_hex(v.n))
                  [] converter = "conv_plus1" -> IntV(v.n + 1)]

\* final_val = converter(raw_val) without the try / except around it
Convert_NoExcept(converter, raw_val) == Apply(converter, raw_val)

\* try: final_val = converter(raw_val)  except Exception: final_val = raw_val
Convert(converter, raw_val) ==
  LET r == Apply(converter, raw_val) IN
  IF r.raised THEN [raised |-> FALSE, val |-> raw_val] ELSE r

\* value of an upper-case hexadecimal digit
HexDigit(ch) == (CHOOSE i \in 1..16 : HexChars[i] = ch) - 1

\* the 0x02 switch derived from a status field: the field must be a str that
\* starts with "0x"; (int(val, 16) & 0x1) == 1 is bit 0 of its last digit
SwitchOf(fields, status) ==
  IF /\ status \in DOMAIN fields
     /\ fields[status].t = "str"
     /\ Len(fields[status].s) >= 3
     /\ fields[status].s[1] = "0" /\ fields[status].s[2] = "x"
     /\ fields[status].s[Len(fields[status].s)] \in {HexChars[i] : i \in 1..16}
  THEN <<BoolV(HexDigit(fields[status].s[Len(fields[status].s)]) % 2 = 1)>>
  ELSE <<>>

\* decode_packet with BMS_MAP = map: [raised, payload]
decode_packet_in(map, packet, packet_type) ==
  IF packet_type \notin DOMAIN map THEN [raised |-> FALSE, payload |-> NoFields]
  ELSE
    LET register_def == map[packet_type]
        raw_val(o) == get_value(packet, HEADER_LEN + o, register_def[o].dtype)
        kept == {o \in DOMAIN register_def :
                   /\ ~(HEADER_LEN + o >= Len(packet))
                   /\ raw_val(o).t # "None"}
        final(o) == Convert(register_def[o].converter, raw_val(o))
        names == {register_def[o].name : o \in kept}
        \* for offset in sorted(...): a later entry of the same name overwrites
        last(n) == Max({o \in kept : register_def[o].name = n})
        fields == [n \in names |-> final(last(n)).val]
        discharge == SwitchOf(fields, "discharge_status_hex")
        charge == SwitchOf(fields, "charge_status_hex")
        virtual == IF packet_type # 2 THEN NoFields
                   ELSE (IF charge # <<>> THEN "charge_switch" :> charge[1]
                         ELSE NoFields)
                        @@ (IF discharge # <<>> THEN "discharge_switch" :> discharge[1]
                            ELSE NoFields)
    IN  IF \E o \in kept : final(o).raised
        THEN [raised |-> TRUE, payload |-> NoFields]
        ELSE [raised |-> FALSE, payload |-> virtual @@ fields]

\* decode_packet(packet, packet_type)
decode_packet(packet, packet_type) == decode_packet_in(BMS_MAP, packet, packet_type)

\* ---- packets written from chosen raw values
\* representable raw values of a struct code; the model's integers are 32 bits
\* wide, so an unsigned 32-bit register stays below 2^31
Boundary(dtype) ==
  CASE dtype = "B" -> <<0, 1, 2, 127, 128, 254, 255>>
    [] dtype = "s" -> <<0, 1, 48, 65, 120, 128, 255>>
    [] dtype = "H" -> <<0, 1, 255, 256, 32767, 32768, 65535>>
    [] dtype = "h" -> <<0, 1, -1, 255, 256, 32767, -32768>>
    [] dtype = "I" -> <<0, 1, 255, 65535, 65536, 16777216, 2147483647>>
    [] dtype = "i" -> <<0, 1, -1, 65536, -65536, 2147483647, (-2147483647) - 1>>

\* the seeds of the raw values
Seeds == 0..6

\* offset -> raw integer: entry by entry another boundary value
RawOf(register_def, seed) ==
  [o \in DOMAIN register_def |->
     Boundary(register_def[o].dtype)[((seed + o) % 7) + 1]]

\* byte k of the little-endian two's complement of v
LEByte(v, k) == (v \div Pow256(k)) % 256

\* a frame of type t with every register of register_def written at
\* HEADER_LEN + offset from raw, all other payload bytes zero
BuildFrame(register_def, t, raw) ==
  [i \in 1..PacketLen(t) |->
     IF i <= 4 THEN HEADER[i]
     ELSE IF i = 5 THEN t
     ELSE IF i = 6 THEN 0
     ELSE LET at == {o \in DOMAIN register_def :
                       /\ HEADER_LEN + o < i
                       /\ i <= HEADER_LEN + o + Width(register_def[o].dtype)}
          IN  IF at = {} THEN 0
              ELSE LET o == CHOOSE x \in at : TRUE
                   IN  LEByte(raw[o], i - 1 - HEADER_LEN - o)]

\* the logical value of a raw value: the value as get_value returns it, with
\* the converter applied, the raw value itself where the converter raises
Logical(entry, raw) ==
  LET v == IF entry.dtype = "s" THEN BytesV(<<raw>>) ELSE IntV(raw)
      r == Apply(entry.converter, v)
  IN  IF r.raised THEN v ELSE r.val

\* packet types decode_packet is called with (3 is in no map)
DecTypes == {1, 2, 16, 3}

\* packet lengths: around the header, around the first and the last register
\* of each map, around the device address, and the whole frame
Cuts == {0, 4, 6, 7, 9, 10, 14, 15, 130, 131, 269, 270, 273, 274, 286, 287,
         300, 308}

\* the packet of the run: a frame written from the raw values of seed, cut to
\* n bytes (d_type = 0: no packet was chosen yet)
DecPacket(k, t, seed, n) ==
  LET register_def == RegOf(MapOf(k), t)
      raw == RawOf(register_def, seed)
      whole == BuildFrame(register_def, t, raw)
  IN  /\ d_type = 0
      /\ d_map' = k
      /\ d_type' = t
      /\ d_raw' = raw
      /\ d_packet' = SubSeq(whole, 1, IF n < Len(whole) THEN n ELSE Len(whole))
      /\ d_done' = {}
      /\ UNCHANGED <<d_result, d_addr, coreVars, pubVars, spVars, appVars>>

\* payload = decode_packet(packet, packet_type)
Decode ==
  /\ "decode" \notin d_done
  /\ d_result' = decode_packet_in(MapOf(d_map), d_packet, d_type)
  /\ d_done' = d_done \cup {"decode"}
  /\ UNCHANGED <<d_map, d_packet, d_type, d_raw, d_addr, coreVars, pubVars, spVars,
                 appVars>>

\* device_id = extract_device_address(packet)
Extract ==
  /\ "extract" \notin d_done
  /\ d_addr' = extract_device_address(d_packet)
  /\ d_done' = d_done \cup {"extract"}
  /\ UNCHANGED <<d_map, d_packet, d_type, d_raw, d_result, coreVars, pubVars, spVars,
                 appVars>>

NextDecode ==
  \/ \E k \in Maps, t \in DecTypes, seed \in Seeds, n \in Cuts : DecPacket(k, t, seed, n)
  \/ Decode
  \/ Extract

SpecDecode == Init /\ [][NextDecode]_vars

\* --------------------------------------------- app/publisher.py: MqttPublisher
\* app.settings_publish_interval (default 1800 s), in ticks
settings_publish_interval == 2

\* the device ids and packet types the publisher is called with (3 is not in
\* BMS_MAP)
PubDevices == {1, 2}
PubTypes == {1, 2, 3}

\* the throttle looks at the latest settings publish of any device
last_time_AnyDevice(device_id) ==
  IF DOMAIN settings_last_publish = {} THEN 0
  ELSE Max({settings_last_publish[d] : d \in DOMAIN settings_last_publish})

\* last_time = self.settings_last_publish.get(device_id, 0)
last_time(device_id) ==
  IF device_id \in DOMAIN settings_last_publish THEN settings_last_publish[device_id]
  ELSE 0

\* the key is not remembered
Discover_Forgets(device_id, packet_type, data_map) ==
  IF <<device_id, packet_type>> \in published_discovery
  THEN [keys |-> published_discovery, sent |-> {}]
  ELSE [keys |-> published_discovery, sent |-> DOMAIN data_map]

\* publish_discovery_for_packet_type: the keys afterwards and the offsets
\* whose discovery message was handed to _safe_publish
Discover(device_id, packet_type, data_map) ==
  IF <<device_id, packet_type>> \in published_discovery
  THEN [keys |-> published_discovery, sent |-> {}]
  ELSE [keys |-> published_discovery \cup {<<device_id, packet_type>>},
        sent |-> DOMAIN data_map]

\* publish_payload(device_id, packet_type, payload_dict)
PublishPayload(device_id, packet_type) ==
  /\ p_calls < MaxPubCalls
  /\ p_calls' = p_calls + 1
  /\ LET interval == settings_publish_interval
         throttled == packet_type = 1 /\ p_now - last_time(device_id) < interval
         d == Discover(device_id, packet_type, BMS_MAP[packet_type])
     IN  IF packet_type \notin DOMAIN BMS_MAP \/ throttled
         THEN /\ published' = Append(published,
                    [call |-> "publish_payload", dev |-> device_id,
                     ptype |-> packet_type, at |-> p_now, state |-> FALSE,
                     discovery |-> {}])
              /\ UNCHANGED <<settings_last_publish, published_discovery>>
         ELSE /\ settings_last_publish' =
                    IF packet_type = 1
                    THEN (device_id :> p_now) @@ settings_last_publish
                    ELSE settings_last_publish
              /\ published_discovery' = d.keys
              /\ published' = Append(published,
                    [call |-> "publish_payload", dev |-> device_id,
                     ptype |-> packet_type, at |-> p_now, state |-> TRUE,
                     discovery |-> d.sent])
  /\ UNCHANGED <<p_now, coreVars, decVars, spVars, appVars>>

\* publish_discovery_for_packet_type(device_id, packet_type, BMS_MAP[packet_type])
PublishDiscovery(device_id, packet_type) ==
  /\ p_calls < MaxPubCalls
  /\ packet_type \in DOMAIN BMS_MAP
  /\ p_calls' = p_calls + 1
  /\ LET d == Discover(device_id, packet_type, BMS_MAP[packet_type])
     IN  /\ published_discovery' = d.keys
         /\ published' = Append(published,
               [call |-> "publish_discovery", dev |-> device_id,
                ptype |-> packet_type, at |-> p_now, state |-> FALSE,
                discovery |-> d.sent])
  /\ UNCHANGED <<settings_last_publish, p_now, coreVars, decVars, spVars, appVars>>

\* time passes between two calls
PubTick ==
  /\ p_now < EPOCH + MaxPubTime
  /\ p_now' = p_now + 1
  /\ UNCHANGED <<settings_last_publish, published_discovery, published, p_calls,
                 coreVars, decVars, spVars, appVars>>

NextPub ==
  \/ \E d \in PubDevices, t \in PubTypes : PublishPayload(d, t)
  \/ \E d \in PubDevices, t \in PubTypes : PublishDiscovery(d, t)
  \/ PubTick

SpecPub == Init /\ [][NextPub]_vars

\* ---- publish_payload with the discovery messages as a step of their own
\* what is left alone by the publisher
nonPubVars == <<extVars, mainVars, engVars, tcpVars, decVars, spVars, appVars>>

\* what the _safe_publish calls of one discovery loop return: True for every
\* message, for some, or for none (retries exhausted, or never connected)
Deliveries == {"all", "some", "none"}

\* publish_payload up to the point where publish_discovery_for_packet_type
\* has looked the key up and recorded it
PayloadAndKey(device_id, packet_type) ==
  /\ p_pc = "idle"
  /\ p_calls < MaxPubCalls
  /\ p_calls' = p_calls + 1
  /\ LET interval == settings_publish_interval
         throttled == packet_type = 1 /\ p_now - last_time(device_id) < interval
         key == <<device_id, packet_type>>
     IN  IF packet_type \notin DOMAIN BMS_MAP \/ throttled
         THEN /\ published' = Append(published,
                    [call |-> "publish_payload", dev |-> device_id,
                     ptype |-> packet_type, at |-> p_now, state |-> FALSE,
                     discovery |-> {}])
              /\ UNCHANGED <<settings_last_publish, published_discovery, p_pc, p_key>>
         ELSE /\ settings_last_publish' =
                    IF packet_type = 1
                    THEN (device_id :> p_now) @@ settings_last_publish
                    ELSE settings_last_publish
              /\ published' = Append(published,
                    [call |-> "publish_payload", dev |-> device_id,
                     ptype |-> packet_type, at |-> p_now, state |-> TRUE,
                     discovery |-> {}])
              /\ IF key \in published_discovery
                 THEN UNCHANGED <<published_discovery, p_pc, p_key>>
                 ELSE /\ published_discovery' = published_discovery \cup {key}
                      /\ p_pc' = "sending"
                      /\ p_key' = key
  /\ UNCHANGED <<p_now, nonPubVars>>

\* a key whose messages were not all delivered is forgotten again
DiscoverySend_ForgetsOnFailure(delivery) ==
  /\ p_pc = "sending"
  /\ published' = Append(published,
        [call |-> "discovery", dev |-> p_key[1], ptype |-> p_key[2], at |-> p_now,
         state |-> FALSE,
         discovery |-> IF delivery = "none" THEN {}
                       ELSE IF delivery = "all" THEN DOMAIN BMS_MAP[p_key[2]]
                       ELSE {Min(DOMAIN BMS_MAP[p_key[2]])}])
  /\ published_discovery' = IF delivery = "all" THEN published_discovery
                            ELSE published_discovery \ {p_key}
  /\ p_pc' = "idle"
  /\ p_key' = <<>>
  /\ UNCHANGED <<settings_last_publish, p_now, p_calls, nonPubVars>>

\* the loop over sorted(data_map.keys()): every message is handed to
\* _safe_publish, whose result is not looked at; the record keeps the offsets
\* of the messages that were delivered
DiscoverySend(delivery) ==
  /\ p_pc = "sending"
  /\ published' = Append(published,
        [call |-> "discovery", dev |-> p_key[1], ptype |-> p_key[2], at |-> p_now,
         state |-> FALSE,
         discovery |-> IF delivery = "none" THEN {}
                       ELSE IF delivery = "all" THEN DOMAIN BMS_MAP[p_key[2]]
                       ELSE {Min(DOMAIN BMS_MAP[p_key[2]])}])
  /\ p_pc' = "idle"
  /\ p_key' = <<>>
  /\ UNCHANGED <<settings_last_publish, published_discovery, p_now, p_calls,
                 nonPubVars>>

NextDisc ==
  \/ \E d \in PubDevices, t \in PubTypes : PayloadAndKey(d, t)
  \/ \E delivery \in Deliveries : DiscoverySend(delivery)
  \/ PubTick

SpecDisc == Init /\ [][NextDisc]_vars

\* ------------------------------------ app/publisher.py: _safe_publish
\* what one self.client.publish(...) can do: return rc == MQTT_ERR_SUCCESS,
\* return another rc, raise
Outcomes == {"success", "rc_error", "exception"}

\* _safe_publish(topic, payload, retain, retries) is called
SafePublishCall(r) ==
  /\ sp_pc = "idle"
  /\ sp_pc' = "loop"
  /\ retries' = r
  /\ attempt' = 0
  /\ UNCHANGED <<connected, sp_log, sp_return, coreVars, decVars, pubVars, appVars>>

\* a successful publish does not end the loop
AfterAttempt_KeepsTrying(outcome) == "loop"

\* if rc == mqtt.MQTT_ERR_SUCCESS: return True; otherwise sleep and go on
AfterAttempt(outcome) == IF outcome = "success" THEN "done" ELSE "loop"

\* one pass of for attempt in range(1, retries + 1): sleep 1 s when not
\* connected, then publish; the try / except covers the publish and its rc
SafePublishAttempt(outcome) ==
  /\ sp_pc = "loop"
  /\ attempt < retries
  /\ attempt' = attempt + 1
  /\ sp_log' = Append(sp_log, [n |-> attempt + 1, waited |-> ~connected,
                               outcome |-> outcome])
  /\ sp_pc' = AfterAttempt(outcome)
  /\ sp_return' = IF outcome = "success" THEN "True" ELSE sp_return
  /\ UNCHANGED <<retries, connected, coreVars, decVars, pubVars, appVars>>

\* the for loop is exhausted: return False
SafePublishGivesUp ==
  /\ sp_pc = "loop"
  /\ attempt >= retries
  /\ sp_pc' = "done"
  /\ sp_return' = IF sp_return = "none" THEN "False" ELSE sp_return
  /\ UNCHANGED <<retries, attempt, connected, sp_log, coreVars, decVars, pubVars,
                 appVars>>

\* _on_connect(rc) on the network thread: connected iff rc == 0
OnConnect(rc) ==
  /\ connected' = (rc = 0)
  /\ connected' # connected
  /\ UNCHANGED <<sp_pc, retries, attempt, sp_log, sp_return, coreVars, decVars,
                 pubVars, appVars>>

\* _on_disconnect(rc) on the network thread
OnDisconnect ==
  /\ connected
  /\ connected' = FALSE
  /\ UNCHANGED <<sp_pc, retries, attempt, sp_log, sp_return, coreVars, decVars,
                 pubVars, appVars>>

\* the steps of _safe_publish itself
SafePublishStep ==
  \/ \E outcome \in Outcomes : SafePublishAttempt(outcome)
  \/ SafePublishGivesUp

NextSafePublish ==
  \/ \E r \in 0..MaxRetries : SafePublishCall(r)
  \/ \E outcome \in Outcomes : SafePublishAttempt(outcome)
  \/ SafePublishGivesUp
  \/ \E rc \in {0, 5} : OnConnect(rc)
  \/ OnDisconnect

\* every sleep and every publish call returns
SpecSafePublish == Init /\ [][NextSafePublish]_vars /\ WF_vars(SafePublishStep)

\* ---------------------------------------- app/main.py: asyncio entry point
\* app.packet_expire_time, default 0.4 s; the clock a_now counts steps of 0.2 s
packet_expire_time == 2

\* self.mqtt.publish(f"bms/{address}/<leaf>", payload, retain=...)
MqttPublish(address, leaf, payload, retain) ==
  [address |-> address, leaf |-> leaf, payload |-> payload, retain |-> retain]

\* BmsPacketProcessor._handle_realtime_packet: keep (now, data)
handle_realtime_packet(data, out, at) ==
  [last_realtime_packet |-> <<at, data>>, mqtt_out |-> out]

\* a realtime packet whose age equals packet_expire_time is expired already
handle_address_packet_Strict(data, last, out, at) ==
  IF Len(data) < 6 THEN [last_realtime_packet |-> last, mqtt_out |-> out]
  ELSE LET address == data[5]
           online == Append(out, MqttPublish(address, "status", "online", TRUE))
       IN  IF last = None
           THEN [last_realtime_packet |-> last, mqtt_out |-> online]
           ELSE IF at - last[1] >= packet_expire_time
           THEN [last_realtime_packet |-> None, mqtt_out |-> online]
           ELSE [last_realtime_packet |-> None,
                 mqtt_out |-> online
                   \o <<MqttPublish(address, "voltage", "52.3", FALSE),
                        MqttPublish(address, "current", "-5.4", FALSE),
                        MqttPublish(address, "soc", "87", FALSE)>>]

\* BmsPacketProcessor._handle_address_packet
handle_address_packet(data, last, out, at) ==
  IF Len(data) < 6 THEN [last_realtime_packet |-> last, mqtt_out |-> out]
  ELSE LET address == data[5]
           online == Append(out, MqttPublish(address, "status", "online", TRUE))
       IN  IF last = None
           THEN [last_realtime_packet |-> last, mqtt_out |-> online]
           ELSE IF at - last[1] > packet_expire_time
           THEN [last_realtime_packet |-> None, mqtt_out |-> online]
           ELSE [last_realtime_packet |-> None,
                 mqtt_out |-> online
                   \o <<MqttPublish(address, "voltage", "52.3", FALSE),
                        MqttPublish(address, "current", "-5.4", FALSE),
                        MqttPublish(address, "soc", "87", FALSE)>>]

\* BmsPacketProcessor.process_raw: pkt_type = (data[2] << 8) | data[3],
\* 0x1200 is a realtime packet, 0x1000 an address packet
process_raw(data, last, out, at) ==
  IF Len(data) = 0 \/ Len(data) < 4
  THEN [last_realtime_packet |-> last, mqtt_out |-> out]
  ELSE LET pkt_type == data[3] * 256 + data[4]
       IN  IF pkt_type = 4608 THEN handle_realtime_packet(data, out, at)
           ELSE IF pkt_type = 4096 THEN handle_address_packet(data, last, out, at)
           ELSE [last_realtime_packet |-> last, mqtt_out |-> out]

\* chunks the transports deliver: a realtime packet, address packets of two
\* devices, an address packet one byte short, another type, a 2-byte fragment
AppChunks ==
  { <<85, 170, 18, 0, 9, 9>>, <<85, 170, 16, 0, 1, 0>>, <<85, 170, 16, 0, 2, 0>>,
    <<85, 170, 16, 0, 1>>, <<85, 170, 1, 0>>, <<85, 170>> }

\* SerialTransport.data_received(data). on_packet_callback is the coroutine
\* function on_packet of serial_loop: calling it builds a coroutine object and
\* runs none of its body; nothing awaits or schedules the object
SerialDataReceived(data) ==
  /\ Len(delivered) + Len(raw_log) < MaxAppEvents
  /\ LET buf == s_buffer \o data
     IN  /\ coroutines' = IF buf # <<>> THEN Append(coroutines, buf)
                          ELSE coroutines
         /\ s_buffer' = IF buf # <<>> THEN <<>> ELSE buf
  /\ delivered' = Append(delivered, data)
  /\ UNCHANGED <<last_realtime_packet, a_now, mqtt_out, raw_log, coreVars, decVars,
                 pubVars, spVars>>

\* tcp_loop: async for data in transport.read_loop(): processor.process_raw(data);
\* read_loop yields only non-empty reads
TcpRead(data) ==
  /\ Len(delivered) + Len(raw_log) < MaxAppEvents
  /\ data # <<>>
  /\ LET r == process_raw(data, last_realtime_packet, mqtt_out, a_now)
     IN  /\ last_realtime_packet' = r.last_realtime_packet
         /\ mqtt_out' = r.mqtt_out
  /\ raw_log' = Append(raw_log, [src |-> "tcp", data |-> data, at |-> a_now,
                                  out |-> Len(mqtt_out')])
  /\ UNCHANGED <<a_now, s_buffer, coroutines, delivered, coreVars, decVars,
                 pubVars, spVars>>

\* time.time() advances
AppTick ==
  /\ a_now < MaxAppTime
  /\ a_now' = a_now + 1
  /\ UNCHANGED <<last_realtime_packet, mqtt_out, s_buffer, coroutines, raw_log,
                 delivered, coreVars, decVars, pubVars, spVars>>

NextApp ==
  \/ \E data \in AppChunks \cup {<<>>} : SerialDataReceived(data)
  \/ \E data \in AppChunks : TcpRead(data)
  \/ AppTick

SpecApp == Init /\ [][NextApp]_vars

\* ------------------------------------------------- properties of the extractor
\* the marker 55 AA EB 90 stands at offset i (0-based) of s
MarkerAt(s, i) ==
  /\ i + 4 <= Len(s)
  /\ s[i + 1] = 85 /\ s[i + 2] = 170 /\ s[i + 3] = 235 /\ s[i + 4] = 144

\* offset of the earliest marker of s, -1 if s has none
FirstMarker(s) ==
  IF \E i \in 0..(Len(s) - 4) : MarkerAt(s, i)
  THEN CHOOSE i \in 0..(Len(s) - 4) :
         MarkerAt(s, i) /\ \A j \in 0..(i - 1) : ~MarkerAt(s, j)
  ELSE -1

\* declared length of a frame whose 5th byte is t
Declared(t) == IF t = 2 THEN 308 ELSE 300

RECURSIVE FramesOf(_)
\* the (packet_type, packet_bytes) pairs of a byte stream that is in the
\* buffer as a whole
FramesOf(s) ==
  LET header_index == FirstMarker(s) IN
  IF header_index = -1 \/ Len(s) < header_index + 5 THEN <<>>
  ELSE LET pkt_type == s[header_index + 5]
           packet_len == Declared(pkt_type)
       IN  IF Len(s) < header_index + packet_len THEN <<>>
           ELSE <<[ptype |-> pkt_type,
                   pkt |-> SubSeq(s, header_index + 1, header_index + packet_len)]>>
                \o FramesOf(SubSeq(s, header_index + packet_len + 1, Len(s)))

Pairs(ys) == [i \in 1..Len(ys) |-> [ptype |-> ys[i].ptype, pkt |-> ys[i].pkt]]

\* end offset in the stream of the i-th yielded frame, 0 for i = 0
EndOf(i) == IF i = 0 THEN 0 ELSE yielded[i].start + Len(yielded[i].pkt)

\* a marker is in the buffer, the frame of the earliest one is not
Partial(buf) ==
  /\ FirstMarker(buf) # -1
  /\ IF Len(buf) < FirstMarker(buf) + 5 THEN TRUE
     ELSE Len(buf) < FirstMarker(buf) + Declared(buf[FirstMarker(buf) + 5])

\* C1: whenever the extractor waits for the next chunk, the frames it has
\* yielded from the chunks received so far are exactly the frames of the
\* concatenated stream taken as one chunk.
C1_ChunkingInvariance ==
  pc = "recv" => Pairs(yielded) = FramesOf(stream)

\* marker-free junk above the cap arrived first (the truncation fired), the
\* marker was split over two chunks, and the frame was still yielded
C1_Witness ==
  /\ pc = "recv" /\ nchunks = 3 /\ Len(yielded) = 1
  /\ yielded[1].start > buffer_size

\* C2: every yielded frame starts with 55 AA EB 90, is tagged with its 5th
\* byte and is exactly 308 bytes long if that byte is 0x02, 300 otherwise.
C2_FrameShape ==
  \A i \in 1..Len(yielded) :
    LET f == yielded[i] IN
      /\ Len(f.pkt) >= 5
      /\ SubSeq(f.pkt, 1, 4) = <<85, 170, 235, 144>>
      /\ f.ptype = f.pkt[5]
      /\ Len(f.pkt) = Declared(f.pkt[5])

C2_Witness ==
  /\ Len(yielded) = 2
  /\ yielded[1].ptype = 1 /\ Len(yielded[1].pkt) = 300
  /\ yielded[2].ptype = 2 /\ Len(yielded[2].pkt) = 308

\* C3: the i-th yielded frame is the byte range of the stream that starts at
\* the earliest marker at or after the end of the (i-1)-th yielded frame, so
\* the ranges are pairwise disjoint and their start offsets increase strictly.
C3_StreamOrder ==
  \A i \in 1..Len(yielded) :
    LET f == yielded[i]
        rest == SubSeq(stream, EndOf(i - 1) + 1, Len(stream))
    IN  /\ f.start = EndOf(i - 1) + FirstMarker(rest)
        /\ f.pkt = SubSeq(stream, f.start + 1, f.start + Len(f.pkt))
        /\ i > 1 => /\ yielded[i - 1].start < f.start
                    /\ EndOf(i - 1) <= f.start

\* two frames were yielded and a marker inside the first one was passed over
C3_Witness ==
  /\ Len(yielded) = 2
  /\ FirstMarker(SubSeq(yielded[1].pkt, 5, Len(yielded[1].pkt))) # -1

\* C4: a scan that finds a marker without its whole frame yields nothing and
\* leaves the buffer as it is, also above the cap; and the extractor never
\* goes back to waiting for input with a complete frame at the first marker.
C4_PartialWaits ==
  [][/\ (pc = "parse" /\ Partial(buffer))
          => (buffer' = buffer /\ yielded' = yielded /\ pc' = "recv")
     /\ (pc = "parse" /\ pc' = "recv" /\ FirstMarker(buffer') # -1)
          => Partial(buffer')]_vars

\* a partial frame longer than the cap is waiting for its last bytes
C4_Witness ==
  /\ pc = "recv" /\ Partial(buffer)
  /\ Len(buffer) > buffer_size /\ Len(buffer) > 100

\* C5: a scan that finds no marker yields nothing and stops; the buffer
\* becomes its last 100 bytes if it is longer than the cap and stays as it
\* is otherwise.
C5_NoMarkerTruncation ==
  [][(pc = "parse" /\ FirstMarker(buffer) = -1)
       => /\ yielded' = yielded
          /\ pc' = "recv"
          /\ buffer' = IF Len(buffer) > buffer_size
                       THEN SubSeq(buffer, Len(buffer) - 99, Len(buffer))
                       ELSE buffer]_vars

\* the truncation has fired: 100 bytes are left of a longer marker-free stream
C5_Witness ==
  /\ pc = "recv" /\ Len(buffer) = 100 /\ consumed > 0
  /\ FirstMarker(stream) = -1 /\ yielded = <<>>

\* ------------------------------------------------- properties of the main loop
\* index in handled of the last 0x02 frame before the n-th frame, 0 if none
LastTelBefore(n) ==
  LET T == {k \in 1..(n - 1) : handled[k].ptype = 2}
  IN  IF T = {} THEN 0 ELSE CHOOSE k \in T : \A h \in T : h <= k

\* the id a 0x01 frame reports: bytes 270..273, little-endian
SelfId(p) == p[271] + 256 * p[272] + 65536 * p[273] + 16777216 * p[274]

\* the 0x02 calls of the sink
TelCalls == {i \in 1..Len(sink) : sink[i].ptype = 2}

\* C6: there is one pending slot and it holds the newest 0x02 frame: a stored
\* packet is the last 0x02 frame taken from the stream, with its arrival
\* time, and a 0x02 packet handed to the publisher is the last 0x02 frame
\* that preceded the 0x01 frame, never an earlier one.
C6_NewestTelemetryPending ==
  /\ pending_realtime_packet # None =>
       LET k == LastTelBefore(Len(handled) + 1)
       IN  /\ k # 0
           /\ pending_realtime_packet = handled[k].pkt
           /\ last_realtime_time = handled[k].at
  /\ \A i \in TelCalls :
       LET k == LastTelBefore(sink[i].by)
       IN  k # 0 /\ sink[i].pkt = handled[k].pkt

\* two different 0x02 frames arrived in a row and the second one is pending
C6_Witness ==
  /\ Len(handled) = 2
  /\ handled[1].ptype = 2 /\ handled[2].ptype = 2
  /\ handled[1].pkt # handled[2].pkt
  /\ pending_realtime_packet = handled[2].pkt

\* C7: once a 0x01 frame has been processed the pending slot is empty, and a
\* 0x02 frame that was pending and younger than the expiry time has been
\* handed to the publisher under the id of that 0x01 frame.
C7_IdentityEmptiesSlot ==
  (Len(handled) > 0 /\ handled[Len(handled)].ptype = 1) =>
    LET j == Len(handled)
        k == LastTelBefore(j)
    IN  /\ pending_realtime_packet = None
        /\ (/\ k # 0
            /\ \A h \in (k + 1)..(j - 1) : handled[h].ptype # 1
            /\ handled[j].at - handled[k].at < PACKET_EXPIRE_TIME)
             => \E i \in TelCalls :
                  /\ sink[i].by = j
                  /\ sink[i].pkt = handled[k].pkt
                  /\ sink[i].dev = SelfId(handled[j].pkt)

C10_IdZeroToZero ==
  \A i \in 1..Len(sink) :
    SelfId(handled[sink[i].by].pkt) = 0 => sink[i].dev = 0

\* the write command for slave 5 stood right before the 0x01 frame of id 0,
\* a 0x02 packet was pending, and the frame went out under id 0
C10_Witness ==
  /\ Len(handled) = 2 /\ Len(sink) = 1
  /\ handled[1].ptype = 2 /\ handled[2].ptype = 1
  /\ handled[2].skipped = <<5, 16, 16, 30, 0, 1, 2, 0, 1, 12, 34>>
  /\ SelfId(handled[2].pkt) = 0
  /\ sink[1].dev = 0 /\ sink[1].ptype = 1

\* the target of a write command (slave id 1..15, function code 0x10, 11
\* bytes) that makes up the bytes s, -1 if s is no such command
CommandTarget(s) ==
  IF Len(s) = 11 /\ s[1] \in 1..15 /\ s[2] = 16 THEN s[1] ELSE -1

\* C11: a 0x02 frame followed within the expiry time by a 0x01 frame that
\* reports id 7, with no command seen before, is handed to the publisher
\* under device id 0 and not under 7.
C11_FallbackToZero ==
  \A j \in 1..Len(handled) :
    LET k == LastTelBefore(j) IN
    (/\ handled[j].ptype = 1 /\ SelfId(handled[j].pkt) = 7
     /\ \A h \in 1..j : handled[h].skipped = <<>>
     /\ k # 0
     /\ \A h \in (k + 1)..(j - 1) : handled[h].ptype # 1
     /\ handled[j].at - handled[k].at < PACKET_EXPIRE_TIME)
      => /\ \E i \in TelCalls : sink[i].by = j /\ sink[i].dev = 0
         /\ \A i \in TelCalls : sink[i].by = j => sink[i].dev # 7

\* C12: a 0x01 frame that reports a non-zero id and arrives right after a
\* write command makes its calls of the publisher under the target id of
\* that command.
C12_AttributedToLastCommanded ==
  \A i \in 1..Len(sink) :
    LET j == sink[i].by IN
    (SelfId(handled[j].pkt) # 0 /\ CommandTarget(handled[j].skipped) # -1)
      => sink[i].dev = CommandTarget(handled[j].skipped)

\* ------------------------------------- properties of the correlation engine
\* the Command records emitted so far
Released == {i \in 1..Len(emitted) : emitted[i].kind = "Command"}

\* the target the Identity frame number m was attributed to
AttributedTo(m) ==
  LET i == CHOOSE i \in 1..Len(emitted) :
             emitted[i].kind = "Identity" /\ emitted[i].n = m
  IN  emitted[i].target

C15_CommandFrameRecognised ==
  \A i \in 1..Len(yielded) :
    LET gap == SubSeq(stream, EndOf(i - 1) + 1, yielded[i].start) IN
      \A c \in 1..(Len(gap) - 10) : CommandTarget(SubSeq(gap, c, c + 10)) = -1

\* the drops of a stored 0x02 packet accounted for so far
StaleDrops == notices.overwritten + notices.expired + notices.idle

\* C16: a 0x02 frame that replaces a pending one adds exactly one to the
\* count of stale drops, and a pending packet that is older than the expiry
\* time when a 0x01 frame arrives is cleared and counted as well.
C16_StaleDropsCounted ==
  [][/\ (/\ Len(handled') = Len(handled) + 1
         /\ handled'[Len(handled')].ptype = 2
         /\ pending_realtime_packet # None)
          => StaleDrops' = StaleDrops + 1
     /\ (/\ Len(handled') = Len(handled) + 1
         /\ handled'[Len(handled')].ptype = 1
         /\ pending_realtime_packet # None
         /\ now - last_realtime_time > PACKET_EXPIRE_TIME)
          => /\ pending_realtime_packet' = None
             /\ StaleDrops' = StaleDrops + 1]_vars

\* C17: a pending 0x02 packet whose age is exactly the expiry time when the
\* 0x01 frame arrives is still handed to the publisher, and no packet older
\* than the expiry time is.
C17_ExpiryBoundaryInclusive ==
  /\ \A j \in 1..Len(handled) :
       LET k == LastTelBefore(j) IN
       (/\ handled[j].ptype = 1
        /\ k # 0
        /\ \A h \in (k + 1)..(j - 1) : handled[h].ptype # 1
        /\ handled[j].at - handled[k].at = PACKET_EXPIRE_TIME)
         => \E i \in TelCalls : sink[i].by = j /\ sink[i].pkt = handled[k].pkt
  /\ \A i \in TelCalls :
       LET j == sink[i].by
           k == LastTelBefore(j)
       IN  k # 0 /\ handled[j].at - handled[k].at <= PACKET_EXPIRE_TIME

\* C18: the buffer holds bytes of the current connection only: it is the
\* part of the bytes received since the connection was opened that has not
\* been consumed yet, so it is empty right after a reconnect, and every
\* yielded frame is a byte range of the current connection.
C18_ReconnectEmptiesBuffer ==
  /\ buffer = SubSeq(stream, consumed + 1, Len(stream))
  /\ \A i \in 1..Len(yielded) :
       yielded[i].pkt =
         SubSeq(stream, yielded[i].start + 1, yielded[i].start + Len(yielded[i].pkt))

\* the first connection ended with a partial frame in the buffer, and a
\* frame was yielded on the second connection
C18_Witness ==
  /\ conns = 2 /\ pc = "recv"
  /\ Partial(leftover)
  /\ Len(yielded) >= 1

\* C19: when a new connection has been opened the pending slot is empty, and
\* a 0x02 packet is handed to the publisher only by a 0x01 frame of the
\* connection on which the packet was received.
C19_ReconnectEmptiesPending ==
  [][/\ (m_conns' = m_conns + 1) => pending_realtime_packet' = None
     /\ \A i \in 1..Len(sink') :
          sink'[i].ptype = 2 =>
            handled'[sink'[i].by].conn = handled'[LastTelBefore(sink'[i].by)].conn]_vars

\* the frames taken out of the buffer on connection c, as (type, bytes) pairs
HandledOn(c) ==
  LET hs == SelectSeq(handled, LAMBDA h : h.conn = c)
  IN  [i \in 1..Len(hs) |-> [ptype |-> hs[i].ptype, pkt |-> hs[i].pkt]]

\* C20: the reader is decoupled from the consumer: whatever the consumer
\* does with a frame, the reader goes on draining the link, and a frame is
\* lost only by being counted as dropped. The loop counts no such drop, so
\* when it waits for the next chunk every frame received on the connection
\* has been taken out of the buffer and passed on.
C20_ReaderDecoupledFromConsumer ==
  m_pc = "recv" => HandledOn(m_conns) = FramesOf(m_stream)

\* ------------------------------------------------- properties of the decoder
\* the register map of the run's packet type (empty for an unknown type)
RunReg == RegOf(MapOf(d_map), d_type)

\* the whole extent of the register at offset o lies inside the packet
Fits(o) == HEADER_LEN + o + Width(RunReg[o].dtype) <= Len(d_packet)

\* C22: decode_packet includes a register of the map in its result exactly
\* when the register's whole extent fits in the packet (HEADER_LEN + offset +
\* width <= len(packet)); a register that starts or ends beyond the packet is
\* skipped without an error, and every included field carries the value of its
\* own register.
C22_FieldIncludedIffFits ==
  ("decode" \in d_done /\ d_type \in DOMAIN MapOf(d_map)) =>
    /\ ~d_result.raised
    /\ \A o \in DOMAIN RunReg :
         /\ (RunReg[o].name \in DOMAIN d_result.payload) <=> Fits(o)
         /\ Fits(o) => d_result.payload[RunReg[o].name] = Logical(RunReg[o], d_raw[o])

\* a 0x01 packet of 273 bytes: the device address (270..273) starts inside the
\* packet and ends beyond it, the registers before it are decoded
C22_Witness ==
  /\ "decode" \in d_done /\ d_type = 1 /\ Len(d_packet) = 273
  /\ "device_address" \notin DOMAIN d_result.payload
  /\ "balance_start_voltage" \in DOMAIN d_result.payload

\* C23: when the converter of a field raises, the field is in the result with
\* its unscaled raw value and every other field is decoded as without the
\* failure; decode_packet raises for no packet and no packet type, and an
\* unknown packet type gives an empty mapping.
C23_ConverterFailureKeepsRaw ==
  "decode" \in d_done =>
    /\ ~d_result.raised
    /\ d_type \notin DOMAIN MapOf(d_map) => d_result.payload = NoFields
    /\ \A o \in DOMAIN RunReg :
         Fits(o) =>
           LET e == RunReg[o]
               v == IF e.dtype = "s" THEN BytesV(<<d_raw[o]>>) ELSE IntV(d_raw[o])
           IN  /\ e.name \in DOMAIN d_result.payload
               /\ IF Apply(e.converter, v).raised
                  THEN d_result.payload[e.name] = v
                  ELSE d_result.payload[e.name] = Apply(e.converter, v).val

\* the converter of the string register raised: the field holds the raw bytes
\* and the registers after it are decoded
C23_Witness ==
  /\ "decode" \in d_done /\ d_map = "BMS_MAP_Str" /\ d_type = 1
  /\ Len(d_packet) = 300
  /\ Apply("conv_div1000", BytesV(<<d_raw[124]>>)).raised
  /\ d_result.payload["design_text"] = BytesV(<<d_raw[124]>>)
  /\ d_result.payload["device_address"].t = "str"

\* C24: for a whole frame whose registers were written little-endian, in the
\* width and signedness of their struct codes, from chosen raw values,
\* decode_packet returns for every register the raw value with the
\* register's converter applied.
C24_DecoderRoundTrip ==
  (/\ "decode" \in d_done
   /\ d_type \in DOMAIN MapOf(d_map)
   /\ Len(d_packet) = PacketLen(d_type)) =>
    \A o \in DOMAIN RunReg :
      /\ RunReg[o].name \in DOMAIN d_result.payload
      /\ d_result.payload[RunReg[o].name] = Logical(RunReg[o], d_raw[o])

\* a whole 0x02 frame with a negative temperature (signed 16 bits, tenths)
\* and an unsigned 32-bit register at its largest value
C24_Witness ==
  /\ "decode" \in d_done /\ d_type = 2 /\ Len(d_packet) = 308
  /\ \E o \in DOMAIN RunReg :
       /\ RunReg[o].dtype = "h" /\ RunReg[o].converter = "conv_div10"
       /\ d_raw[o] < 0
       /\ d_result.payload[RunReg[o].name] = FloatV(d_raw[o], 10)
  /\ \E o \in DOMAIN RunReg :
       /\ RunReg[o].dtype = "I" /\ d_raw[o] = 2147483647

\* C25: extract_device_address returns the unsigned 32-bit little-endian
\* value of bytes 270..273 of a packet of at least 274 bytes and 0 for a
\* shorter one; for a 0x01 packet it is the register decode_packet gives as
\* the device address (offset 264 after the 6-byte header).
C25_AddressAgreesWithDecoder ==
  /\ "extract" \in d_done =>
       d_addr = IF Len(d_packet) >= 274
                THEN d_packet[271] + 256 * d_packet[272] + 65536 * d_packet[273]
                       + 16777216 * d_packet[274]
                ELSE 0
  /\ (d_done = {"decode", "extract"} /\ d_type = 1 /\ Len(d_packet) >= 274) =>
       /\ "device_address" \in DOMAIN d_result.payload
       /\ d_result.payload["device_address"] = StrV(<<"0", "x">> \o HexDigits(d_addr, 8))
       /\ REG_01h[264].dtype = "I"

\* a 0x01 frame whose device address needs more than 16 bits
C25_Witness ==
  /\ d_done = {"decode", "extract"} /\ d_type = 1 /\ Len(d_packet) = 300
  /\ d_addr > 65535
  /\ d_result.payload["device_address"].s = conv_hex(d_addr)

\* ------------------------------------ properties of the loop under failures
\* process_and_publish raised while the n-th handled frame was published
RaisedAt(n) == \E i \in 1..Len(sink) : sink[i].by = n /\ sink[i].result = "raised"

\* the frames handled on the current connection whose handling raised
RaisedHere == {n \in 1..Len(handled) : handled[n].conn = m_conns /\ RaisedAt(n)}

\* number of handled frames, and of bytes received on the current connection,
\* when the buffer of the current connection was last created
LastReset ==
  IF RaisedHere = {}
  THEN [n |-> Cardinality({n \in 1..Len(handled) : handled[n].conn < m_conns}), at |-> 0]
  ELSE [n |-> Max(RaisedHere), at |-> handled[Max(RaisedHere)].seen]

\* C21: no failure while a frame is handled ends the receive loop: the loop
\* is always at one of its positions, and whenever it waits for data every
\* well-formed frame received after the last failure has been handled.
C21_LoopSurvivesFailures ==
  /\ m_pc \in {"connect", "recv", "parse"}
  /\ m_pc = "recv" =>
       Pairs(SubSeq(handled, LastReset.n + 1, Len(handled)))
         = FramesOf(SubSeq(m_stream, LastReset.at + 1, Len(m_stream)))

\* the publisher raised on a frame, and a frame received afterwards on the
\* same connection was handled and passed to the publisher
C21_Witness ==
  /\ m_pc = "recv"
  /\ \E n \in RaisedHere : \E k \in (n + 1)..Len(handled) :
       /\ handled[k].conn = m_conns
       /\ handled[k].seen > handled[n].seen
       /\ \E i \in 1..Len(sink) : sink[i].by = k

\* C26: the nested publisher accepts register entries of every tuple length:
\* process_and_publish returns without raising for every 0x01 and 0x02 packet
\* it is called with.
C26_PublisherAcceptsExtendedEntries ==
  \A i \in 1..Len(sink) : sink[i].ptype \in {1, 2} => sink[i].result # "raised"

\* ----------------------------------------------- properties of the publisher
\* the i-th call handed the settings state of its device to _safe_publish
SettingsPublished(i) == published[i].ptype = 1 /\ published[i].state

\* C27: the discovery messages of a (device_id, packet_type) pair are
\* published in at most one call; every later call with the same pair
\* publishes no discovery message.
C27_DiscoveryOncePerKey ==
  \A i, j \in 1..Len(published) :
    (/\ i < j
     /\ published[i].dev = published[j].dev
     /\ published[i].ptype = published[j].ptype
     /\ published[i].discovery # {}) => published[j].discovery = {}

\* the pair was discovered by a first call; a later publish_payload of the
\* same pair published its state and no discovery message
C27_Witness ==
  \E i, j \in 1..Len(published) :
    /\ i < j
    /\ published[i].dev = published[j].dev
    /\ published[i].ptype = published[j].ptype
    /\ published[i].discovery = DOMAIN BMS_MAP[published[i].ptype]
    /\ published[j].call = "publish_payload" /\ published[j].state
    /\ published[j].discovery = {}

SafePublishContract ==
  /\ attempt <= retries
  /\ Len(sp_log) = attempt
  /\ sp_return # "raised"
  /\ sp_pc = "loop" =>
       /\ sp_return = "none"
       /\ \A i \in 1..Len(sp_log) : sp_log[i].outcome # "success"
  /\ sp_pc = "done" =>
       IF \E i \in 1..Len(sp_log) : sp_log[i].outcome = "success"
       THEN /\ sp_return = "True"
            /\ sp_log[Len(sp_log)].outcome = "success"
            /\ \A i \in 1..(Len(sp_log) - 1) : sp_log[i].outcome # "success"
       ELSE /\ sp_return = "False"
            /\ Len(sp_log) = retries

\* C29: _safe_publish makes at most retries publish attempts and ends: it
\* returns True right after the first attempt whose return code is success,
\* False when all retries attempts failed or raised, and propagates no
\* exception; an attempt made while disconnected is delayed, not skipped.
C29_SafePublishTerminates ==
  /\ []SafePublishContract
  /\ (sp_pc = "loop") ~> (sp_pc = "done")

\* two attempts failed, one of them made while disconnected after its wait,
\* and the third one succeeded: True was returned
C29_Witness ==
  /\ sp_pc = "done" /\ sp_return = "True" /\ Len(sp_log) = 3
  /\ sp_log[1].outcome = "exception" /\ sp_log[2].outcome = "rc_error"
  /\ \E i \in 1..2 : sp_log[i].waited

\* ---------------------------------- properties of the asyncio entry point
\* the executions of process_raw that the serial transport caused
SerialProcessed == SelectSeq(raw_log, LAMBDA e : e.src = "serial")

\* the non-empty chunks delivered to data_received
SerialNonEmpty == SelectSeq(delivered, LAMBDA d : d # <<>>)

\* C30: in serial mode every non-empty chunk delivered to data_received has
\* process_raw executed on exactly its bytes, in order, and the transport's
\* buffer is empty afterwards.
C30_SerialChunksProcessed ==
  /\ s_buffer = <<>>
  /\ Len(SerialProcessed) = Len(SerialNonEmpty)
  /\ \A i \in 1..Len(SerialNonEmpty) : SerialProcessed[i].data = SerialNonEmpty[i]

\* ------------------------------------ properties of the connection loop
\* a recv timeout changes nothing but the count of timeouts
TimeoutKeepsConnection ==
  t_timeouts' # t_timeouts =>
    /\ pc = "recv" /\ pc' = "recv"
    /\ buffer' = buffer
    /\ conns' = conns /\ t_closed' = t_closed /\ t_failed' = t_failed

\* C31: TcpTransport.packets never ends; after every connection loss (empty
\* recv, reset, read error, failed connect) the socket is closed and a new
\* connection attempt follows; a recv timeout keeps the connection and leaves
\* the buffer, a partial frame included, unchanged.
C31_TcpReconnects ==
  /\ [](pc \in {"connect", "recv", "parse", "finally", "sleep"})
  /\ [](pc \in {"sleep", "connect"} => t_sock = "None" /\ t_closed = conns + t_failed)
  /\ (pc = "finally") ~> (pc = "connect")
  /\ (pc = "connect") ~> (pc \in {"recv", "finally"})
  /\ [][TimeoutKeepsConnection]_vars

\* on the second connection, after a failed connect and a lost connection
\* whose sockets were closed, a recv timeout has left a partial frame waiting
C31_Witness ==
  /\ pc = "recv" /\ conns = 2 /\ t_failed = 1 /\ t_closed = 2 /\ t_timeouts = 1
  /\ Find(buffer) # -1 /\ yielded = <<>>

\* ------------------------------------ properties of BmsPacketProcessor
\* the i-th execution of process_raw took a realtime (0x1200) packet
IsRealtime(i) ==
  Len(raw_log[i].data) >= 4 /\ raw_log[i].data[3] = 18 /\ raw_log[i].data[4] = 0

\* the i-th execution took an address (0x1000) packet of at least 6 bytes
IsAddress(i) ==
  Len(raw_log[i].data) >= 6 /\ raw_log[i].data[3] = 16 /\ raw_log[i].data[4] = 0

\* the realtime packets stored before the i-th execution and not met by an
\* address packet since
StoredBefore(i) ==
  {j \in 1..(i - 1) : IsRealtime(j) /\ \A k \in (j + 1)..(i - 1) : ~IsAddress(k)}

\* the publish calls of the i-th execution
PublishedBy(i) ==
  SubSeq(mqtt_out, (IF i = 1 THEN 0 ELSE raw_log[i - 1].out) + 1, raw_log[i].out)

\* C32: an address packet of at least 6 bytes always publishes "online" for
\* its address; the measurement values follow for that address exactly when a
\* realtime packet was stored before and is not older than packet_expire_time;
\* when the address packet finds a stored realtime packet, the store is empty
\* afterwards.
C32_BindingRule ==
  \A i \in 1..Len(raw_log) :
    IsAddress(i) =>
      LET address == raw_log[i].data[5]
          p == PublishedBy(i)
          fresh == StoredBefore(i) # {}
                   /\ raw_log[i].at - raw_log[Max(StoredBefore(i))].at
                        <= packet_expire_time
      IN  /\ Len(p) >= 1
          /\ p[1] = MqttPublish(address, "status", "online", TRUE)
          /\ \A n \in 1..Len(p) : p[n].address = address
          /\ IF fresh
             THEN [n \in 2..Len(p) |-> p[n].leaf]
                    = (2 :> "voltage") @@ (3 :> "current") @@ (4 :> "soc")
             ELSE Len(p) = 1
          /\ (i = Len(raw_log) /\ StoredBefore(i) # {}) => last_realtime_packet = None

\* a realtime packet exactly packet_expire_time old was bound to address 2,
\* and a second address packet then found the store empty
C32_Witness ==
  /\ Len(raw_log) = 3
  /\ IsRealtime(1) /\ IsAddress(2) /\ IsAddress(3)
  /\ raw_log[2].at - raw_log[1].at = packet_expire_time
  /\ raw_log[2].data[5] = 2
  /\ Len(PublishedBy(2)) = 4 /\ Len(PublishedBy(3)) = 1

\* --------------------------------------------- properties of buffer growth
\* C33: after each received chunk has been fully processed, the buffer holds
\* at most max(buffer_size, 100) + 1024 + 307 bytes, however many bytes were
\* received and whether or not markers occur.
C33_BufferBounded ==
  pc = "recv" =>
    Len(buffer) <= Max({buffer_size, TAIL_KEEP}) + RECV_MAX + (PACKET_LEN_02 - 1)

\* a buffer that was filled with junk up to the cap, then took a full chunk
\* ending with a marker, waits four bytes below the bound for the last byte of
\* the frame
C33_Witness ==
  /\ pc = "recv"
  /\ Len(buffer) = buffer_size + RECV_MAX + 303
  /\ Find(buffer) = buffer_size + RECV_MAX - 4
  /\ Len(buffer) + 4 = Max({buffer_size, TAIL_KEEP}) + RECV_MAX + (PACKET_LEN_02 - 1)

\* --------------------------------------------- properties of the truncation
\* the part of the stream after the last yielded frame
Unyielded == SubSeq(stream, EndOf(Len(yielded)) + 1, Len(stream))

\* the buffer is the end of the stream, the earliest marker not yet yielded
\* is in it as a whole, and so are the last three bytes when no marker is
\* there yet
FramesKept ==
  /\ buffer = SubSeq(stream, consumed + 1, Len(stream))
  /\ FirstMarker(Unyielded) # -1
       => consumed <= EndOf(Len(yielded)) + FirstMarker(Unyielded)
  /\ FirstMarker(Unyielded) = -1 => Len(buffer) >= Min({3, Len(Unyielded)})

\* a parse step that shortens the buffer without yielding found no marker
TruncationOnlyWithoutMarker ==
  (pc = "parse" /\ yielded' = yielded /\ Len(buffer') < Len(buffer))
    => FirstMarker(buffer) = -1 /\ buffer' = LastN(buffer, TAIL_KEEP)

\* C34: the truncation at the cap never destroys a frame: it happens only when
\* the buffer holds no complete marker, and it keeps the tail of the buffer,
\* so that a marker split over two chunks around the truncation is found
\* after the next chunk and its frame is yielded whole.
C34_TruncationKeepsFrames ==
  /\ []FramesKept
  /\ [][TruncationOnlyWithoutMarker]_vars

\* 300 junk bytes and the first two bytes of a marker were truncated to the
\* last 100 bytes; the rest of the marker and of the frame came in two more
\* chunks and the frame that starts at byte 300 of the stream was yielded
C34_Witness ==
  /\ pc = "recv" /\ Len(yielded) = 1 /\ Len(stream) = 600
  /\ SubSeq(stream, 1, Len(JunkHalf)) = JunkHalf
  /\ yielded[1].start = 300
  /\ yielded[1].pkt = SubSeq(stream, 301, 600)
  /\ buffer = <<>>

\* ------------------------------- properties of the id of extracted frames
\* C35: every 0x01 frame the extractor yields is 300 bytes long, at least the
\* 274 that extract_device_address needs, so that the id it returns is the
\* value the stream carries in bytes 270..273 of that frame, never the 0 of
\* the short-packet branch.
C35_YieldedIdentityHasId ==
  \A i \in 1..Len(yielded) :
    yielded[i].ptype = 1 =>
      /\ Len(yielded[i].pkt) = PACKET_LEN_01
      /\ Len(yielded[i].pkt) >= 274
      /\ extract_device_address(yielded[i].pkt)
           = U32LE(stream, yielded[i].start + 270)

\* the frame of device 7 arrived in two chunks, the first one 273 bytes long
\* (one byte short of the id field), and was yielded with its id
C35_Witness ==
  /\ pc = "recv" /\ nchunks = 2 /\ Len(yielded) = 1
  /\ yielded[1].ptype = 1 /\ yielded[1].start = 0
  /\ extract_device_address(yielded[1].pkt) = 7

\* ------------------------------------ properties of frames of other subtypes
\* the step that takes a frame of a subtype other than 0x01 and 0x02 out of
\* the buffer removes 300 bytes from the marker on, calls the publisher for
\* nothing and leaves the pending packet and its time alone
OtherSubtypeNoOp ==
  (Len(handled') = Len(handled) + 1 /\ handled'[Len(handled')].ptype \notin {1, 2})
    => /\ Len(handled'[Len(handled')].pkt) = PACKET_LEN_01
       /\ Len(m_buffer') = Len(m_buffer) - Find(m_buffer) - PACKET_LEN_01
       /\ sink' = sink
       /\ pending_realtime_packet' = pending_realtime_packet
       /\ last_realtime_time' = last_realtime_time

\* a 0x02 frame, a frame of another subtype and a 0x01 frame in a row, the
\* 0x01 frame less than the expiry time after the 0x02 frame: the 0x02
\* packet is passed to the publisher by the 0x01 frame
ReleasedAcrossOther ==
  \A n \in 3..Len(handled) :
    ( /\ handled[n - 2].ptype = 2
      /\ handled[n - 1].ptype \notin {1, 2}
      /\ handled[n].ptype = 1
      /\ handled[n].at - handled[n - 2].at < PACKET_EXPIRE_TIME )
    => \E i \in 1..Len(sink) :
         sink[i].by = n /\ sink[i].ptype = 2 /\ sink[i].pkt = handled[n - 2].pkt

\* C36: a marker followed by a subtype byte other than 0x01 and 0x02 is taken
\* as a 300-byte frame that publishes nothing and leaves the pending 0x02
\* packet and its time unchanged, and the pending packet is still released by
\* the next 0x01 frame.
C36_OtherSubtypeIsNoOp ==
  /\ [][OtherSubtypeNoOp]_vars
  /\ []ReleasedAcrossOther

\* ------------------------------- properties of the exception handler
\* the step in which a call of the publisher raises empties the buffer and
\* leaves the pending packet and its time alone
ExceptionResetsBuffer ==
  (Len(sink') > Len(sink) /\ sink'[Len(sink')].result = "raised")
    => /\ m_buffer' = <<>>
       /\ pending_realtime_packet' = pending_realtime_packet
       /\ last_realtime_time' = last_realtime_time

\* every frame handled on the same connection after a frame that raised was
\* received after it
FailedFrameNotReprocessed ==
  \A n \in 1..Len(handled) : \A k \in (n + 1)..Len(handled) :
    (RaisedAt(n) /\ handled[k].conn = handled[n].conn)
      => handled[k].seen > handled[n].seen

\* a 0x02 packet that was pending when a frame raised is passed to the
\* publisher by a later 0x01 frame that comes less than the expiry time
\* after it
PendingPublishedLater ==
  \A n \in 1..Len(handled) : \A k \in (n + 1)..Len(handled) :
    ( /\ RaisedAt(n)
      /\ handled[k].ptype = 1
      /\ LastTelBefore(k) # 0 /\ LastTelBefore(k) < n
      /\ handled[k].at - handled[LastTelBefore(k)].at < PACKET_EXPIRE_TIME )
    => \E i \in 1..Len(sink) :
         /\ sink[i].by = k /\ sink[i].ptype = 2
         /\ sink[i].pkt = handled[LastTelBefore(k)].pkt

\* C37: when handling a frame raises, the whole buffer is emptied while the
\* pending 0x02 packet and its time stay as they were; the failing frame is
\* never handled again, and the packet left pending is still published by a
\* later 0x01 frame within the expiry time.
C37_ExceptionKeepsPending ==
  /\ [][ExceptionResetsBuffer]_vars
  /\ []FailedFrameNotReprocessed
  /\ []PendingPublishedLater

\* ------------------------------------ properties of the discovery key
\* the discovery loops run so far for the key of the i-th record
AttemptsBefore(i) ==
  {j \in 1..(i - 1) : /\ published[j].call = "discovery"
                      /\ published[j].dev = published[i].dev
                      /\ published[j].ptype = published[i].ptype}

\* no key leaves the set
KeyNeverRemoved == published_discovery \subseteq published_discovery'

\* C38: the key (device_id, packet_type) is in the set before any of its
\* discovery messages is sent and never leaves it: after a discovery loop in
\* which every publish failed, no later publish_payload of the same key runs
\* the loop again.
C38_FailedDiscoveryNotRetried ==
  /\ [](p_pc = "sending" => p_key \in published_discovery)
  /\ [](\A i \in 1..Len(published) :
          published[i].call = "discovery" =>
            /\ AttemptsBefore(i) = {}
            /\ <<published[i].dev, published[i].ptype>> \in published_discovery)
  /\ [][KeyNeverRemoved]_vars

\* every discovery message of a key failed; a later publish_payload of the
\* same key handed its state on and ended without sending discovery messages
C38_Witness ==
  /\ p_pc = "idle" /\ Len(published) = 3
  /\ published[2].call = "discovery" /\ published[2].discovery = {}
  /\ published[3].call = "publish_payload" /\ published[3].state
  /\ published[3].dev = published[2].dev /\ published[3].ptype = published[2].ptype

====
